---- MODULE Spec2Model ----
(***************************************************************************)
(* Model of the Action/Task orchestration engine of the provider console   *)
(* API: TaskManager (application/service/task_manager.py), the runtime     *)
(* Task (application/model/task.py) and the action repository              *)
(* (application/data/action_repository.py).                                *)
(*                                                                         *)
(* Every call to the record store is one atomic step, so that the states   *)
(* of the store between two calls of one handler are states of the model,  *)
(* and every such call may raise (StoreFails).                             *)
(***************************************************************************)
EXTENDS Integers, Sequences, FiniteSets, TLC

(* ---------------------------- bounds ---------------------------------- *)

MaxTasks == 3
MaxClock == 3
MaxStoreFailures == 2
MaxRecompute == 2
MaxLines == 2
MaxCalls == 2
MaxBrokerFailures == 1
MaxPairTasks == 2
MaxCmds == 2
MaxPolls == 1

(* --------------------------- constants -------------------------------- *)

ActionIds == {"A1"}

AllNames == <<"init", "configure", "verify", "report", "cleanup">>

NOT_STARTED == "not_started"
IN_PROGRESS == "in_progress"
COMPLETED == "completed"
FAILED == "failed"

TaskStatus == {NOT_STARTED, IN_PROGRESS, COMPLETED, FAILED}

\* Python's None, for a string field and for a datetime field.
NoneVal == "<None>"
NoTime == 0

\* What the callable bound to a Task does when it is invoked: it returns, or
\* it raises one of the errors the provisioning steps raise.
Ok == "ok"
Errors == {"ApplicationError", "Exception"}
Outcomes == {Ok} \cup Errors

\* str(e).  ApplicationError.__init__ calls super().__init__() without
\* arguments, so the text of an ApplicationError is the empty string.
ErrStr(e) == IF e = "ApplicationError" THEN "" ELSE "disk full"

\* str(e) of an error raised by the store driver.
StoreErrStr == "store unreachable"

\* Python truthiness of an optional string (if error_message:).
Truthy(s) == s # NoneVal /\ s # ""

\* The task lists handed to create_action: names unique within the action.
TaskLists == { SubSeq(AllNames, 1, n) : n \in 0..MaxTasks }

VARIABLES
    store,      \* actions_collection: action id -> Action document
    registry,   \* TaskManager.tasks: action id -> (task name -> runtime Task)
    clock,      \* the last value datetime.utcnow() returned
    failures,   \* number of store calls that have raised so far
    pc,         \* position of the create_action/run_action call of each id
    loc,        \* locals of that call
    storeErrAt, \* history: the loop position of run_action at which a store
                \* call first raised (empty while none has)
    view,       \* what get_action_status answered, if the last step was such
                \* a call
    applied,    \* history: number of completed calls of
                \* _update_action_status(action_id) on the drawn snapshot
    broker,     \* Redis: the stream task:<task_id> and its group group:<task_id>
    prod,       \* the running step: lines appended so far, and whether it ended
    vw,         \* per viewer: the get_redis_logs call and what it has yielded
    bfail,      \* number of Redis calls that have raised so far
    lost,       \* history: data entries evicted before the group delivered them
    step,       \* the Task whose step function is running, and its locals
    archive,    \* logs_collection: the document of the task, if any
    alogs,      \* what get_mongo_logs answered, if the last step was such a
                \* call
    returned,   \* action ids an HTTP handler has returned to its client
    bg,         \* per action id: how far the operation that creates and runs
                \* it has come before create_action
    loop,       \* the event-loop thread: free, or the action id whose
                \* coroutine step is running on it
    fkind       \* per action id: what asyncio.iscoroutinefunction says of the
                \* step functions of its Tasks

orchVars == <<store, registry, clock, failures, pc, loc, storeErrAt>>

logVars == <<broker, prod, vw, bfail, lost>>

stepVars == <<step, archive, alogs>>

srvVars == <<returned, bg, loop, fkind>>

vars == <<store, registry, clock, failures, pc, loc, storeErrAt, view, applied,
          broker, prod, vw, bfail, lost, step, archive, alogs,
          returned, bg, loop, fkind>>

\* No store call of the run has raised.
NoErr == {}

(* ------------------------ pure helpers -------------------------------- *)

\* datetime.utcnow(): the clock never runs backwards.
Now == { t \in {clock, clock + 1} : t <= MaxClock }

\* A slip in the rollup: IN_PROGRESS is tested before FAILED.
Rollup_InProgressFirst(statuses) ==
    IF \E i \in DOMAIN statuses : statuses[i] = IN_PROGRESS THEN IN_PROGRESS
    ELSE IF \E i \in DOMAIN statuses : statuses[i] = FAILED THEN FAILED
    ELSE IF \A i \in DOMAIN statuses : statuses[i] = COMPLETED THEN COMPLETED
    ELSE NOT_STARTED

\* TaskManager._update_action_status, status=None branch: the rollup rule.
Rollup(statuses) ==
    IF \E i \in DOMAIN statuses : statuses[i] = FAILED THEN FAILED
    ELSE IF \E i \in DOMAIN statuses : statuses[i] = IN_PROGRESS THEN IN_PROGRESS
    ELSE IF \A i \in DOMAIN statuses : statuses[i] = COMPLETED THEN COMPLETED
    ELSE NOT_STARTED

TaskStatuses(doc) == [i \in DOMAIN doc.tasks |-> doc.tasks[i].status]

\* The action_name handed to create_action and the description of a Task.
ActionName == "Create Akash Cluster"
Description(name) == <<"description of", name>>

\* A slip in create_action: the task documents are built in reverse order.
NewActionDoc_Reversed(names) ==
    [ name |-> ActionName,
      status |-> NOT_STARTED,
      start_time |-> NoTime,
      end_time |-> NoTime,
      tasks |-> [i \in DOMAIN names |->
                    [ name |-> names[Len(names) + 1 - i],
                      description |-> Description(names[Len(names) + 1 - i]),
                      status |-> NOT_STARTED,
                      start_time |-> NoTime,
                      end_time |-> NoTime,
                      error_message |-> NoneVal ]] ]

\* create_action: the Action document built from the task list.
NewActionDoc(names) ==
    [ name |-> ActionName,
      status |-> NOT_STARTED,
      start_time |-> NoTime,
      end_time |-> NoTime,
      tasks |-> [i \in DOMAIN names |->
                    [ name |-> names[i],
                      description |-> Description(names[i]),
                      status |-> NOT_STARTED,
                      start_time |-> NoTime,
                      end_time |-> NoTime,
                      error_message |-> NoneVal ]] ]

\* Task.__init__ for each task of the list; func is the bound callable.
NewRegistryEntry(names, funcs) ==
    [ n \in {names[i] : i \in DOMAIN names} |->
        [ status |-> NOT_STARTED,
          error_message |-> NoneVal,
          func |-> funcs[CHOOSE i \in DOMAIN names :
                            /\ names[i] = n
                            /\ \A j \in DOMAIN names : names[j] = n => j <= i] ] ]

\* _update_task_status builds the $set document: error_message, start_time
\* and end_time are included only when truthy.
SetTaskFields(t, status, error_message, start_time, end_time) ==
    [ t EXCEPT
        !.status = status,
        !.error_message = IF Truthy(error_message) THEN error_message ELSE @,
        !.start_time = IF start_time # NoTime THEN start_time ELSE @,
        !.end_time = IF end_time # NoTime THEN end_time ELSE @ ]

\* action_repository.update_task_status: update_one with
\* array_filters=[{"elem.name": task_name}] on the document of action_id.
UpdateTaskStatusDoc(doc, task_name, status, error_message, start_time, end_time) ==
    [ doc EXCEPT !.tasks =
        [ i \in DOMAIN doc.tasks |->
            IF doc.tasks[i].name = task_name
            THEN SetTaskFields(doc.tasks[i], status, error_message,
                               start_time, end_time)
            ELSE doc.tasks[i] ] ]

\* A slip in _update_action_time: the end_time key is filled whenever either
\* time is given.
UpdateActionTimeDoc_BothKeys(doc, start_time, end_time) ==
    [ doc EXCEPT
        !.start_time = IF start_time # NoTime THEN start_time ELSE @,
        !.end_time = IF end_time # NoTime THEN end_time
                     ELSE IF start_time # NoTime THEN start_time ELSE @ ]

\* _update_action_time + action_repository.update_action_time.
UpdateActionTimeDoc(doc, start_time, end_time) ==
    [ doc EXCEPT
        !.start_time = IF start_time # NoTime THEN start_time ELSE @,
        !.end_time = IF end_time # NoTime THEN end_time ELSE @ ]

\* action_repository.update_action_status.
UpdateActionStatusDoc(doc, status) == [ doc EXCEPT !.status = status ]

\* update_one on a collection: a missing document matches nothing.
UpdateOne_AllDocs(a, newdoc) ==
    IF a \in DOMAIN store THEN [b \in DOMAIN store |-> newdoc] ELSE store

UpdateOne(a, newdoc) ==
    IF a \in DOMAIN store THEN [store EXCEPT ![a] = newdoc] ELSE store

InitLoc ==
    [ idx |-> 0,              \* position in action["tasks"] (0: before the loop)
      action |-> << >>,       \* task names of the document read at line 48
      site |-> "none",        \* which call of _update_task_status is running
      new_status |-> NoneVal, \* new_status of _update_action_status
      e |-> NoneVal ]         \* str(e) in the except branch of _run_task

\* No call of get_action_status was made in the last step.
NoView == [ kind |-> "none", id |-> NoneVal, name |-> NoneVal,
            status |-> NoneVal,
            start_time |-> NoTime, end_time |-> NoTime, tasks |-> << >> ]

\* TaskManager() of a fresh process and an empty actions collection.
OrchInit ==
    /\ store = << >>
    /\ registry = << >>
    /\ clock = 1
    /\ failures = 0
    /\ pc = [a \in ActionIds |-> "idle"]
    /\ loc = [a \in ActionIds |-> InitLoc]
    /\ storeErrAt = [a \in ActionIds |-> NoErr]
    /\ view = NoView
    /\ applied = 0

(* ------------------------- log distribution --------------------------- *)

\* The wallet addresses that open a live view of the task's log.
Viewers == {"w1", "w2"}

\* xreadgroup(..., count=100, ...).
ReadCount == 100

\* xadd(..., maxlen=10000, approximate=True): the value 10000 of the source,
\* scaled down to the stream lengths of this model.
StreamMaxLen == 2

NoEvent == [ ev |-> "none", type |-> NoneVal, message |-> 0 ]
Heartbeat == [ ev |-> "heartbeat", type |-> NoneVal, message |-> 0 ]
ErrorEvent == [ ev |-> "error", type |-> NoneVal, message |-> 0 ]

\* The fields of a stream entry: {"init": "true"}, {"stdout": line} or
\* {"stderr": line}; a line is named by its number.
InitEntry(id) == [ id |-> id, key |-> "init", value |-> 0 ]
LineEntry(id, key, n) == [ id |-> id, key |-> key, value |-> n ]

\* A slip in _process_message: the stderr branch is missing.
ProcessMessage_StdoutOnly(entry) ==
    IF entry.key = "init" THEN NoEvent
    ELSE IF entry.key = "stdout"
    THEN [ ev |-> "data", type |-> "stdout", message |-> entry.value ]
    ELSE NoEvent

\* LogService._process_message, lines 54-64 (NoEvent stands for None).
ProcessMessage(entry) ==
    IF entry.key = "init" THEN NoEvent
    ELSE IF entry.key = "stdout"
    THEN [ ev |-> "data", type |-> "stdout", message |-> entry.value ]
    ELSE IF entry.key = "stderr"
    THEN [ ev |-> "data", type |-> "stderr", message |-> entry.value ]
    ELSE NoEvent

\* The for loop of lines 107-111 passes over the messages whose log_entry is
\* None without doing anything.
RECURSIVE SkipToData(_)
SkipToData(msgs) ==
    IF msgs = << >> THEN << >>
    ELSE IF ProcessMessage(Head(msgs)).ev = "data" THEN msgs
    ELSE SkipToData(Tail(msgs))

\* The messages the for loop passes over before it reaches SkipToData(msgs).
Skipped(msgs) == SubSeq(msgs, 1, Len(msgs) - Len(SkipToData(msgs)))

InitViewer ==
    [ pc |-> "idle",        \* position in get_redis_logs
      batch |-> << >>,      \* messages of the last xreadgroup still to handle
      emitted |-> << >>,    \* data events yielded by the current call
      passed |-> << >>,     \* messages the for loop of the current call is past
      last |-> NoEvent,     \* what the viewer's latest step yielded, if anything
      errors |-> 0,         \* error events yielded by the current call
      calls |-> 0,          \* calls of get_redis_logs made so far
      seen |-> {} ]         \* history: lines yielded in any call

LogVarsInit ==
    /\ broker = [ stream |-> << >>, nextId |-> 1, group |-> FALSE,
                  delivered |-> 0, pending |-> {}, acked |-> {} ]
    /\ prod = [ n |-> 0, done |-> FALSE ]
    /\ vw = [v \in Viewers |-> InitViewer]
    /\ bfail = 0
    /\ lost = {}

\* The task id under which the step logs (Task.task_id, appended to the
\* arguments of the step function).
TaskId == "T1"

\* logs_collection.find_one({"task_id": ...}) returns None.
NoDoc == [ task_id |-> NoneVal, logs |-> << >> ]

\* No get_mongo_logs call has answered.
NoLogs == [ kind |-> "none", logs |-> << >> ]

\* No direct log line is being written.
NoLine == [ type |-> NoneVal, append |-> FALSE, next |-> NoneVal ]

InitStep ==
    [ pc |-> "idle",        \* position in Task.run / the step function
      kind |-> NoneVal,     \* which step function the Task is bound to
      status |-> NOT_STARTED, \* Task.status of the runtime Task
      work |-> "running",   \* the step's own work: a command exiting
                            \* non-zero or a timeout makes it "failed"
      cmds |-> 0,           \* commands the step function has started
      polls |-> 0,          \* iterations of the current polling loop
      check |-> TRUE,       \* check_exit_status of the current command
      ret |-> NoneVal,      \* where the step goes on when the command returns
      out |-> << >>,        \* output lines of the command still to be logged
      cmdbuf |-> << >>,     \* logs_to_append of run_ssh_command
      buf |-> << >>,        \* logs_to_append of _check_akash_node_readiness
      dl |-> NoLine ]       \* the direct log line being written

StepVarsInit ==
    /\ step = InitStep
    /\ archive = NoDoc
    /\ alogs = NoLogs

\* What asyncio.iscoroutinefunction(self.func) distinguishes in Task.run.
FuncKinds == {"function", "coroutine"}

\* No request has been handled; nothing runs on the event loop.
SrvVarsInit ==
    /\ returned = {}
    /\ bg = [a \in {"A1", "A2"} |-> "none"]
    /\ loop = "free"
    /\ fkind = [a \in {"A1", "A2"} |-> NoneVal]

Init == OrchInit /\ LogVarsInit /\ StepVarsInit /\ SrvVarsInit


(* ------------------------- create_action ------------------------------ *)

\* TaskManager.create_action, lines 24-42: insert_action succeeds, then the
\* runtime Tasks are registered under action_id.
CreateAction(a) ==
    /\ pc[a] = "idle"
    /\ a \notin DOMAIN store
    /\ \E names \in TaskLists :
         \E funcs \in [DOMAIN names -> Outcomes] :
            /\ store' = store @@ (a :> NewActionDoc(names))
            /\ registry' = registry @@ (a :> NewRegistryEntry(names, funcs))
    /\ pc' = [pc EXCEPT ![a] = "created"]
    /\ UNCHANGED <<clock, failures, loc, storeErrAt>>

\* A slip in create_action: the runtime Tasks are registered before
\* insert_action is called, so a failed insert leaves them registered.
InsertActionFails_RegisterFirst(a) ==
    /\ pc[a] = "idle"
    /\ failures < MaxStoreFailures
    /\ failures' = failures + 1
    /\ \E names \in TaskLists :
         \E funcs \in [DOMAIN names -> Outcomes] :
            registry' = registry @@ (a :> NewRegistryEntry(names, funcs))
    /\ pc' = [pc EXCEPT ![a] = "create_raised"]
    /\ UNCHANGED <<store, clock, loc, storeErrAt>>

\* insert_action raises (line 41): create_action propagates the error before
\* line 42 runs, and the caller never reaches run_action.
InsertActionFails(a) ==
    /\ pc[a] = "idle"
    /\ failures < MaxStoreFailures
    /\ failures' = failures + 1
    /\ pc' = [pc EXCEPT ![a] = "create_raised"]
    /\ UNCHANGED <<store, registry, clock, loc, storeErrAt>>

(* --------------------------- run_action ------------------------------- *)

\* Where run_action goes when a task has been dealt with and the loop of
\* line 55 moves on: the next task's _run_task, or the code after the loop.
EnterTask(l, i) == [l EXCEPT !.idx = i, !.site = "ip"]

\* run_action lines 48-50: find_action returns the document.
RunActionFind(a) ==
    /\ pc[a] = "created"
    /\ a \in DOMAIN store
    /\ loc' = [loc EXCEPT ![a].action =
                  [i \in DOMAIN store[a].tasks |-> store[a].tasks[i].name]]
    /\ pc' = [pc EXCEPT ![a] = "ra_start"]
    /\ UNCHANGED <<store, registry, clock, failures, storeErrAt>>

\* run_action lines 52-53, then the head of the loop of line 55.
RunActionStart(a) ==
    /\ pc[a] = "ra_start"
    /\ \E t \in Now :
         /\ clock' = t
         /\ store' = UpdateOne(a, UpdateActionTimeDoc(store[a], t, NoTime))
    /\ IF Len(loc[a].action) > 0
       THEN /\ loc' = [loc EXCEPT ![a] = EnterTask(@, 1)]
            /\ pc' = [pc EXCEPT ![a] = "uts_write"]
       ELSE /\ loc' = loc
            /\ pc' = [pc EXCEPT ![a] = "ra_after"]
    /\ UNCHANGED <<registry, failures, storeErrAt>>

\* A slip in the except branch of _run_task: the status written is taken
\* from the runtime Task instead of being FAILED.
UtsArgs_ExceptKeepsStatus(a, t) ==
    LET task == registry[a][loc[a].action[loc[a].idx]] IN
    CASE loc[a].site = "ip" ->
           [ status |-> IN_PROGRESS, error_message |-> NoneVal,
             start_time |-> t, end_time |-> NoTime ]
      [] loc[a].site = "try" ->
           [ status |-> IF task.status = COMPLETED THEN COMPLETED ELSE FAILED,
             error_message |-> task.error_message,
             start_time |-> NoTime, end_time |-> t ]
      [] loc[a].site = "exc" ->
           [ status |-> IF task.status = COMPLETED THEN COMPLETED ELSE FAILED,
             error_message |-> loc[a].e,
             start_time |-> NoTime, end_time |-> t ]

\* The arguments of the three calls of _update_task_status in _run_task:
\* line 75 (site "ip"), line 88 (site "try"), line 98 (site "exc").
UtsArgs(a, t) ==
    LET task == registry[a][loc[a].action[loc[a].idx]] IN
    CASE loc[a].site = "ip" ->
           [ status |-> IN_PROGRESS, error_message |-> NoneVal,
             start_time |-> t, end_time |-> NoTime ]
      [] loc[a].site = "try" ->
           [ status |-> IF task.status = COMPLETED THEN COMPLETED ELSE FAILED,
             error_message |-> task.error_message,
             start_time |-> NoTime, end_time |-> t ]
      [] loc[a].site = "exc" ->
           [ status |-> FAILED, error_message |-> loc[a].e,
             start_time |-> NoTime, end_time |-> t ]

\* _update_task_status lines 155-163: the write of the Task Record.
UpdateTaskStatusWrite(a) ==
    /\ pc[a] = "uts_write"
    /\ \E t \in Now :
         LET args == UtsArgs(a, t) IN
         /\ clock' = t
         /\ store' = UpdateOne(a,
                UpdateTaskStatusDoc(store[a], loc[a].action[loc[a].idx],
                    args.status, args.error_message,
                    args.start_time, args.end_time))
    /\ pc' = [pc EXCEPT ![a] = "uas_find"]
    /\ UNCHANGED <<registry, failures, loc, storeErrAt>>

\* _update_task_status line 164 -> _update_action_status lines 188-198:
\* read the document and compute new_status.
UpdateActionStatusFind(a) ==
    /\ pc[a] = "uas_find"
    /\ a \in DOMAIN store
    /\ loc' = [loc EXCEPT ![a].new_status = Rollup(TaskStatuses(store[a]))]
    /\ pc' = [pc EXCEPT ![a] = "uas_write"]
    /\ UNCHANGED <<store, registry, clock, failures, storeErrAt>>

\* _update_action_status line 200; then _update_task_status returns to its
\* call site in _run_task.
UpdateActionStatusWrite(a) ==
    /\ pc[a] = "uas_write"
    /\ store' = UpdateOne(a, UpdateActionStatusDoc(store[a], loc[a].new_status))
    /\ pc' = [pc EXCEPT ![a] = IF loc[a].site = "ip" THEN "task_run"
                                                    ELSE "ra_check"]
    /\ UNCHANGED <<registry, clock, failures, loc, storeErrAt>>

\* Task.run line 35.
TaskRunBegin(a) ==
    /\ pc[a] = "task_run"
    /\ registry' = [registry EXCEPT
                      ![a][loc[a].action[loc[a].idx]].status = IN_PROGRESS]
    /\ pc' = [pc EXCEPT ![a] = "task_step"]
    /\ UNCHANGED <<store, clock, failures, loc, storeErrAt>>

\* A slip in Task.run: status = COMPLETED is assigned after the try/except
\* instead of inside the try, so a raised step is recorded as completed.
TaskRunEnd_CompletedAlways(a) ==
    LET name == loc[a].action[loc[a].idx]
        f == registry[a][name].func IN
    /\ pc[a] = "task_step"
    /\ registry' = [registry EXCEPT ![a][name] =
          IF f = Ok
          THEN [@ EXCEPT !.status = COMPLETED]
          ELSE [@ EXCEPT !.status = COMPLETED, !.error_message = ErrStr(f)]]
    /\ loc' = [loc EXCEPT ![a].site = "try"]
    /\ pc' = [pc EXCEPT ![a] = "uts_write"]
    /\ UNCHANGED <<store, clock, failures, storeErrAt>>

\* Task.run lines 36-45: the step returns or raises; run() itself returns.
TaskRunEnd(a) ==
    LET name == loc[a].action[loc[a].idx]
        f == registry[a][name].func IN
    /\ pc[a] = "task_step"
    /\ registry' = [registry EXCEPT ![a][name] =
          IF f = Ok
          THEN [@ EXCEPT !.status = COMPLETED]
          ELSE [@ EXCEPT !.status = FAILED, !.error_message = ErrStr(f)]]
    /\ loc' = [loc EXCEPT ![a].site = "try"]
    /\ pc' = [pc EXCEPT ![a] = "uts_write"]
    /\ UNCHANGED <<store, clock, failures, storeErrAt>>

\* run_action lines 59-61 and the loop of line 55: break on a FAILED runtime
\* Task, else go on with the next task or leave the loop.
RunActionCheck(a) ==
    /\ pc[a] = "ra_check"
    /\ IF registry[a][loc[a].action[loc[a].idx]].status = FAILED
       THEN /\ pc' = [pc EXCEPT ![a] = "ra_fail_write"]
            /\ loc' = loc
       ELSE IF loc[a].idx < Len(loc[a].action)
       THEN /\ pc' = [pc EXCEPT ![a] = "uts_write"]
            /\ loc' = [loc EXCEPT ![a] = EnterTask(@, loc[a].idx + 1)]
       ELSE /\ pc' = [pc EXCEPT ![a] = "ra_after"]
            /\ loc' = loc
    /\ UNCHANGED <<store, registry, clock, failures, storeErrAt>>

\* run_action line 60: _update_action_status(action_id, FAILED).
RunActionFailWrite(a) ==
    /\ pc[a] = "ra_fail_write"
    /\ store' = UpdateOne(a, UpdateActionStatusDoc(store[a], FAILED))
    /\ pc' = [pc EXCEPT ![a] = "ra_after"]
    /\ UNCHANGED <<registry, clock, failures, loc, storeErrAt>>

\* A slip in run_action: the final COMPLETED write is also made conditional
\* on there being a Task.
AllTasksCompleted_SomeTask(a) ==
    /\ DOMAIN registry[a] # {}
    /\ \A n \in DOMAIN registry[a] : registry[a][n].status = COMPLETED

\* run_action lines 63-66: all runtime Tasks registered under the action.
AllTasksCompleted(a) ==
    \A n \in DOMAIN registry[a] : registry[a][n].status = COMPLETED

RunActionAfterLoop(a) ==
    /\ pc[a] = "ra_after"
    /\ pc' = [pc EXCEPT ![a] = IF AllTasksCompleted(a)
                               THEN "ra_completed_write" ELSE "ra_end"]
    /\ UNCHANGED <<store, registry, clock, failures, loc, storeErrAt>>

\* run_action line 67.
RunActionCompletedWrite(a) ==
    /\ pc[a] = "ra_completed_write"
    /\ store' = UpdateOne(a, UpdateActionStatusDoc(store[a], COMPLETED))
    /\ pc' = [pc EXCEPT ![a] = "ra_end"]
    /\ UNCHANGED <<registry, clock, failures, loc, storeErrAt>>

\* run_action line 68; run_action returns.
RunActionEnd(a) ==
    /\ pc[a] = "ra_end"
    /\ \E t \in Now :
         /\ clock' = t
         /\ store' = UpdateOne(a, UpdateActionTimeDoc(store[a], NoTime, t))
    /\ pc' = [pc EXCEPT ![a] = "returned"]
    /\ UNCHANGED <<registry, failures, loc, storeErrAt>>

(* ------------------------- store failures ----------------------------- *)

\* The positions of run_action at which the next thing done is a store call.
StoreCallPcs ==
    { "created", "ra_start", "uts_write", "uas_find", "uas_write",
      "ra_fail_write", "ra_completed_write", "ra_end" }

\* The store call at the current position raises.  Inside the try block of
\* _run_task (lines 79-94) the error is caught by line 95 and the except
\* branch calls _update_task_status again; everywhere else it propagates out
\* of run_action.
StoreFails(a) ==
    /\ pc[a] \in StoreCallPcs
    /\ failures < MaxStoreFailures
    /\ failures' = failures + 1
    /\ storeErrAt' = [storeErrAt EXCEPT ![a] =
                         IF @ = NoErr THEN {loc[a].idx} ELSE @]
    /\ IF pc[a] \in {"uts_write", "uas_find", "uas_write"} /\ loc[a].site = "try"
       THEN /\ loc' = [loc EXCEPT ![a].site = "exc", ![a].e = StoreErrStr]
            /\ pc' = [pc EXCEPT ![a] = "uts_write"]
       ELSE /\ loc' = loc
            /\ pc' = [pc EXCEPT ![a] = "raised"]
    /\ UNCHANGED <<store, registry, clock>>

(* ------------------------ get_action_status --------------------------- *)

\* A slip in get_action_status: the status of each Task is taken from the
\* runtime Task of the in-memory registry instead of the stored Task Record.
ViewOf_RuntimeStatus(a, doc) ==
    [ kind |-> "view", id |-> a, name |-> doc.name, status |-> doc.status,
      start_time |-> doc.start_time, end_time |-> doc.end_time,
      tasks |-> [i \in DOMAIN doc.tasks |->
                    [ title |-> doc.tasks[i].name,
                      description |-> doc.tasks[i].description,
                      status |-> IF a \in DOMAIN registry
                                 THEN registry[a][doc.tasks[i].name].status
                                 ELSE doc.tasks[i].status,
                      start_time |-> doc.tasks[i].start_time,
                      end_time |-> doc.tasks[i].end_time ]] ]

\* get_action_status lines 115-133: the view built from the document.
ViewOf(a, doc) ==
    [ kind |-> "view", id |-> a, name |-> doc.name, status |-> doc.status,
      start_time |-> doc.start_time, end_time |-> doc.end_time,
      tasks |-> [i \in DOMAIN doc.tasks |->
                    [ title |-> doc.tasks[i].name,
                      description |-> doc.tasks[i].description,
                      status |-> doc.tasks[i].status,
                      start_time |-> doc.tasks[i].start_time,
                      end_time |-> doc.tasks[i].end_time ]] ]

\* The ValueError("Action ... not found") / the RuntimeError of line 139.
ErrorView(a, kind) == [NoView EXCEPT !.kind = kind, !.id = a]

\* A slip in find_action/get_action_status: a missing document (find_one
\* returns None) is treated as an empty one instead of raising.
GetActionStatusResult_NoCheck(a) ==
    IF a \in DOMAIN store
    THEN ViewOf(a, store[a])
    ELSE ViewOf(a, NewActionDoc(<< >>))

\* find_action (find_one answers) and get_action_status lines 111-136: the
\* view, or the ValueError raised by find_action and re-raised at line 136.
GetActionStatusResult(a) ==
    IF a \in DOMAIN store
    THEN ViewOf(a, store[a])
    ELSE ErrorView(a, "not_found")

\* get_action_status when the store answers.
GetActionStatus(a) ==
    /\ view' = GetActionStatusResult(a)
    /\ UNCHANGED <<orchVars, applied>>

\* get_action_status when find_one raises: find_action re-raises and lines
\* 137-141 turn the error into a RuntimeError.
GetActionStatusStoreFails(a) ==
    /\ failures < MaxStoreFailures
    /\ failures' = failures + 1
    /\ view' = ErrorView(a, "error")
    /\ UNCHANGED <<store, registry, clock, pc, loc, storeErrAt, applied>>

\* create_action is called with an action_id that is already used:
\* insert_one raises DuplicateKeyError, insert_action re-raises it (lines
\* 13-15) and line 42 of create_action is not reached.
CreateActionDuplicate(a) ==
    /\ a \in DOMAIN store
    /\ view' = ErrorView(a, "duplicate_key")
    /\ UNCHANGED <<orchVars, applied>>

\* What a run_action call answers when it ends before its first store write
\* (recorded in view like the answers of get_action_status).
RunRefusals == {"run_not_found", "run_type_error"}

\* A slip in run_action and find_action: neither tests the document, so
\* run_action goes on with None and fails with a TypeError at line 55.
RunActionNotFound_NoCheck(a) ==
    /\ a \notin DOMAIN store
    /\ view' = ErrorView(a, "run_type_error")
    /\ UNCHANGED <<orchVars, applied>>

\* run_action is called with an action_id that has no document: find_one
\* returns None, find_action raises ValueError (lines 24-25) and run_action
\* ends at line 48.
RunActionNotFound(a) ==
    /\ a \notin DOMAIN store
    /\ view' = ErrorView(a, "run_not_found")
    /\ UNCHANGED <<orchVars, applied>>

(* -------------------------- specification ----------------------------- *)

\* One step of run_action for action id a.
RunStep(a) ==
        \/ RunActionFind(a)
        \/ RunActionStart(a)
        \/ UpdateTaskStatusWrite(a)
        \/ UpdateActionStatusFind(a)
        \/ UpdateActionStatusWrite(a)
        \/ TaskRunBegin(a)
        \/ TaskRunEnd(a)
        \/ RunActionCheck(a)
        \/ RunActionFailWrite(a)
        \/ RunActionAfterLoop(a)
        \/ RunActionCompletedWrite(a)
        \/ RunActionEnd(a)
        \/ StoreFails(a)

\* One step of create_action / run_action for action id a.
OrchStep(a) ==
        \/ CreateAction(a)
        \/ InsertActionFails(a)
        \/ RunStep(a)

Next ==
    /\ \/ \E a \in ActionIds :
             /\ OrchStep(a)
             /\ view' = NoView
             /\ UNCHANGED applied
       \/ \E a \in ActionIds : GetActionStatus(a)
       \/ \E a \in ActionIds : GetActionStatusStoreFails(a)
       \/ \E a \in ActionIds : CreateActionDuplicate(a)
       \/ \E a \in ActionIds : RunActionNotFound(a)
    /\ UNCHANGED <<logVars, stepVars, srvVars>>

Spec == Init /\ [][Next]_vars

(* ------------- the rollup recomputation on drawn snapshots ------------ *)

\* The Action documents whose Task statuses form an arbitrary snapshot.
SnapshotDocs ==
    UNION { { [ NewActionDoc(names) EXCEPT
                  !.status = s,
                  !.tasks = [i \in DOMAIN names |->
                                [ @[i] EXCEPT !.status = st[i] ]] ]
              : st \in [DOMAIN names -> TaskStatus], s \in TaskStatus }
            : names \in TaskLists }

\* A stored document with a drawn snapshot, and a call of
\* _update_action_status(action_id) about to read it (line 188).
RollupInit ==
    /\ \E doc \in SnapshotDocs : store = [a \in ActionIds |-> doc]
    /\ registry = << >>
    /\ clock = 1
    /\ failures = 0
    /\ pc = [a \in ActionIds |-> "uas_find"]
    /\ loc = [a \in ActionIds |-> [InitLoc EXCEPT !.site = "ip"]]
    /\ storeErrAt = [a \in ActionIds |-> NoErr]
    /\ view = NoView
    /\ applied = 0
    /\ LogVarsInit
    /\ StepVarsInit
    /\ SrvVarsInit

\* _update_action_status(action_id) is called once more (line 164 calls it
\* after every Task write).
RecomputeAgain(a) ==
    /\ pc[a] = "task_run"
    /\ applied < MaxRecompute
    /\ pc' = [pc EXCEPT ![a] = "uas_find"]
    /\ UNCHANGED <<store, registry, clock, failures, loc, storeErrAt,
                   view, applied>>

RollupNext ==
    /\ \E a \in ActionIds :
        \/ UpdateActionStatusFind(a) /\ UNCHANGED <<view, applied>>
        \/ UpdateActionStatusWrite(a) /\ applied' = applied + 1
                                      /\ UNCHANGED view
        \/ RecomputeAgain(a)
    /\ UNCHANGED <<logVars, stepVars, srvVars>>

RollupSpec == RollupInit /\ [][RollupNext]_vars

(* ------------------------- concurrent Actions -------------------------- *)

\* Two Actions of one TaskManager, run as two concurrent run_action calls.
PairIds == {"A1", "A2"}
PairOutcomes == {Ok, "Exception"}
PairTaskLists == { SubSeq(AllNames, 1, n) : n \in 1..MaxPairTasks }

\* Both Actions have been created (create_action returned for each); the
\* run_action calls that follow interleave at every await and store call.
PairInit ==
    /\ \E names \in [PairIds -> PairTaskLists] :
         \E funcs \in [PairIds -> [1..MaxPairTasks -> PairOutcomes]] :
            /\ store = [a \in PairIds |-> NewActionDoc(names[a])]
            /\ registry = [a \in PairIds |->
                  NewRegistryEntry(names[a],
                      [i \in DOMAIN names[a] |-> funcs[a][i]])]
    /\ clock = MaxClock
    /\ failures = 0
    /\ pc = [a \in PairIds |-> "created"]
    /\ loc = [a \in PairIds |-> InitLoc]
    /\ storeErrAt = [a \in PairIds |-> NoErr]
    /\ view = NoView
    /\ applied = 0
    /\ LogVarsInit
    /\ StepVarsInit
    /\ SrvVarsInit

PairNext ==
    /\ \E a \in PairIds : RunStep(a)
    /\ view' = NoView
    /\ UNCHANGED applied
    /\ UNCHANGED <<logVars, stepVars, srvVars>>

PairSpec == PairInit /\ [][PairNext]_vars

(* ------------------------ task lists with repeats ---------------------- *)

\* create_action does not test the names of the tasks it is given; the
\* callers build them from host names of the request.
DupTaskLists ==
    UNION { [1..n -> { AllNames[i] : i \in 1..MaxPairTasks }]
            : n \in 1..MaxPairTasks }

\* An Action has been created from a task list that may repeat a name.
DupInit ==
    /\ \E names \in DupTaskLists :
         \E funcs \in [1..MaxPairTasks -> PairOutcomes] :
            /\ store = [a \in ActionIds |-> NewActionDoc(names)]
            /\ registry = [a \in ActionIds |->
                  NewRegistryEntry(names, [i \in DOMAIN names |-> funcs[i]])]
    /\ clock = 1
    /\ failures = 0
    /\ pc = [a \in ActionIds |-> "created"]
    /\ loc = [a \in ActionIds |-> InitLoc]
    /\ storeErrAt = [a \in ActionIds |-> NoErr]
    /\ view = NoView
    /\ applied = 0
    /\ LogVarsInit
    /\ StepVarsInit
    /\ SrvVarsInit

DupNext ==
    /\ \E a \in ActionIds : RunStep(a)
    /\ view' = NoView
    /\ UNCHANGED applied
    /\ UNCHANGED <<logVars, stepVars, srvVars>>

DupSpec == DupInit /\ [][DupNext]_vars

(* --------------------- run_action called more than once ---------------- *)

\* An Action has been created; nothing in the TaskManager stops a caller
\* from calling run_action again on an id whose run has ended.
RerunInit ==
    /\ \E names \in PairTaskLists :
         \E funcs \in [1..MaxPairTasks -> PairOutcomes] :
            /\ store = [a \in ActionIds |-> NewActionDoc(names)]
            /\ registry = [a \in ActionIds |->
                  NewRegistryEntry(names, [i \in DOMAIN names |-> funcs[i]])]
    /\ clock = 1
    /\ failures = 0
    /\ pc = [a \in ActionIds |-> "created"]
    /\ loc = [a \in ActionIds |-> InitLoc]
    /\ storeErrAt = [a \in ActionIds |-> NoErr]
    /\ view = NoView
    /\ applied = 0
    /\ LogVarsInit
    /\ StepVarsInit
    /\ SrvVarsInit

\* run_action(action_id) is called again after an earlier call has returned
\* or raised: the runtime Tasks registered under the id are still there.
RunActionAgain(a) ==
    /\ pc[a] \in {"returned", "raised"}
    /\ pc' = [pc EXCEPT ![a] = "created"]
    /\ loc' = [loc EXCEPT ![a] = InitLoc]
    /\ UNCHANGED <<store, registry, clock, failures, storeErrAt>>

RerunNext ==
    /\ \E a \in ActionIds : RunStep(a) \/ RunActionAgain(a)
    /\ view' = NoView
    /\ UNCHANGED applied
    /\ UNCHANGED <<logVars, stepVars, srvVars>>

RerunSpec == RerunInit /\ [][RerunNext]_vars

(* ---------------- the HTTP handlers that launch Actions ---------------- *)

\* A fresh process: no Action exists, no request has been handled.
ServerInit ==
    /\ store = << >>
    /\ registry = << >>
    /\ clock = MaxClock
    /\ failures = 0
    /\ pc = [a \in PairIds |-> "idle"]
    /\ loc = [a \in PairIds |-> InitLoc]
    /\ storeErrAt = [a \in PairIds |-> NoErr]
    /\ view = NoView
    /\ applied = 0
    /\ LogVarsInit
    /\ StepVarsInit
    /\ SrvVarsInit

\* Code that runs on the event loop for action id a can run: no coroutine
\* step of another Action occupies the thread.
LoopAvailable(a) == loop \in {"free", a}

\* Task.run lines 37-40: a coroutine step function is awaited on the event
\* loop, any other is handed to asyncio.to_thread.  The coroutine step
\* functions bound by the callers (ProviderService.update_provider_attributes
\* and its siblings) call run_ssh_command directly, so they keep the thread
\* from the first command until they return.
LoopAfter(a) ==
    IF pc'[a] = "task_step" /\ fkind[a] = "coroutine" THEN a ELSE "free"

\* build_provider lines 96-114: an action id is drawn, create_akash_cluster
\* is queued as a background task and the id is returned at once.
BuildProvider(a) ==
    /\ loop = "free"
    /\ bg[a] = "none"
    /\ pc[a] = "idle"
    /\ bg' = [bg EXCEPT ![a] = "queued"]
    /\ returned' = returned \cup {a}
    /\ UNCHANGED <<orchVars, loop, fkind>>

\* create_akash_cluster line 31: get_ssh_client raises; the error is logged
\* and re-raised into the background runner, and nothing is persisted.
ClusterConnectFails(a) ==
    /\ loop = "free"
    /\ bg[a] = "queued"
    /\ bg' = [bg EXCEPT ![a] = "failed"]
    /\ UNCHANGED <<orchVars, returned, loop, fkind>>

\* create_action for a task list whose step functions are all of kind k.
CreateActionOfKind(a, lists, k) ==
    /\ a \notin DOMAIN store
    /\ \E names \in lists :
         \E funcs \in [DOMAIN names -> PairOutcomes] :
            /\ store' = store @@ (a :> NewActionDoc(names))
            /\ registry' = registry @@ (a :> NewRegistryEntry(names, funcs))
    /\ pc' = [pc EXCEPT ![a] = "created"]
    /\ fkind' = [fkind EXCEPT ![a] = k]
    /\ UNCHANGED <<clock, failures, loc, storeErrAt>>

\* create_akash_cluster lines 31-44, run as the queued background task: the
\* tasks of K3sService and ProviderService (plain functions) are built and
\* create_action persists the Record; there is no await before run_action.
ClusterCreateAction(a) ==
    /\ loop = "free"
    /\ bg[a] = "queued"
    /\ pc[a] = "idle"
    /\ \/ CreateActionOfKind(a, PairTaskLists, "function")
       \/ InsertActionFails(a) /\ UNCHANGED fkind
    /\ bg' = [bg EXCEPT ![a] = "started"]
    /\ UNCHANGED <<returned, loop>>

\* The handler update_provider_attributes (provider_build.py 167-189) up to
\* its first await inside run_action: AkashClusterService does create_action
\* for the one Task bound to the coroutine function
\* ProviderService.update_provider_attributes.  The handler awaits the run
\* and its answer does not carry the action id.
UpdateProviderAttributes(a) ==
    /\ loop = "free"
    /\ bg[a] = "none"
    /\ pc[a] = "idle"
    /\ \/ CreateActionOfKind(a, {SubSeq(AllNames, 1, 1)}, "coroutine")
       \/ InsertActionFails(a) /\ UNCHANGED fkind
    /\ bg' = [bg EXCEPT ![a] = "awaited"]
    /\ UNCHANGED <<returned, loop>>

\* One step of run_action on the event loop.
ServerRunStep(a) ==
    /\ LoopAvailable(a)
    /\ bg[a] \in {"started", "awaited"}
    /\ RunStep(a)
    /\ loop' = LoopAfter(a)
    /\ UNCHANGED <<returned, bg, fkind>>

\* The handler get_action_status (action_status.py 11-15), a coroutine of the
\* same event loop.
ServeActionStatus(a) ==
    /\ loop = "free"
    /\ GetActionStatus(a)
    /\ UNCHANGED srvVars

ServerNext ==
    /\ \/ \E a \in PairIds :
             /\ \/ BuildProvider(a)
                \/ ClusterConnectFails(a)
                \/ ClusterCreateAction(a)
                \/ UpdateProviderAttributes(a)
                \/ ServerRunStep(a)
             /\ view' = NoView
             /\ UNCHANGED applied
       \/ \E a \in PairIds : ServeActionStatus(a)
    /\ UNCHANGED <<logVars, stepVars>>

ServerSpec == ServerInit /\ [][ServerNext]_vars


(* ------------------------- the log service ---------------------------- *)

Min(x, y) == IF x <= y THEN x ELSE y

\* The entries of the stream the group has not delivered yet: what
\* xreadgroup(..., {redis_key: ">"}) has to choose from.
Undelivered == SelectSeq(broker.stream, LAMBDA e : e.id > broker.delivered)

\* The producer appends one line of output (xadd without maxlen).
AppendLine ==
    /\ ~prod.done
    /\ prod.n < MaxLines
    /\ \E key \in {"stdout", "stderr"} :
          broker' = [broker EXCEPT
                        !.stream = Append(@, LineEntry(broker.nextId, key, prod.n + 1)),
                        !.nextId = @ + 1]
    /\ prod' = [prod EXCEPT !.n = @ + 1]
    /\ UNCHANGED <<vw, bfail, lost>>

\* The step's command has finished: nothing more is appended.
ProducerStop ==
    /\ ~prod.done
    /\ prod' = [prod EXCEPT !.done = TRUE]
    /\ UNCHANGED <<broker, vw, bfail, lost>>

\* A client opens GET /tasks/logs/{task_id}: get_redis_logs starts.
CallStream(v) ==
    /\ vw[v].pc \in {"idle", "cancelled", "done"}
    /\ vw[v].calls < MaxCalls
    /\ vw' = [vw EXCEPT ![v] = [InitViewer EXCEPT !.pc = "init_stream",
                                                  !.calls = vw[v].calls + 1,
                                                  !.seen = vw[v].seen]]
    /\ UNCHANGED <<broker, prod, bfail, lost>>

\* _initialize_stream: xadd(redis_key, {"init": "true"}, maxlen, approximate).
\* With an approximate maxlen the broker may evict any number of the oldest
\* entries as long as at least maxlen entries remain.
InitializeStream(v) ==
    /\ vw[v].pc = "init_stream"
    /\ LET added == Append(broker.stream, InitEntry(broker.nextId))
           excess == IF Len(added) > StreamMaxLen
                     THEN Len(added) - StreamMaxLen ELSE 0
       IN  \E k \in 0..excess :
             /\ broker' = [broker EXCEPT
                              !.stream = SubSeq(added, k + 1, Len(added)),
                              !.nextId = @ + 1]
             /\ lost' = lost \cup
                    { added[i].value : i \in
                        { j \in 1..k : /\ added[j].key # "init"
                                       /\ added[j].id > broker.delivered } }
    /\ vw' = [vw EXCEPT ![v].pc = "setup_group"]
    /\ UNCHANGED <<prod, bfail>>

\* _setup_consumer_group: xgroup_create(redis_key, group_name, "0",
\* mkstream=True), the BUSYGROUP error of an existing group being ignored,
\* then xinfo_groups, which lists the group.
SetupConsumerGroup(v) ==
    /\ vw[v].pc = "setup_group"
    /\ broker' = IF broker.group THEN broker
                 ELSE [broker EXCEPT !.group = TRUE, !.delivered = 0]
    /\ vw' = [vw EXCEPT ![v].pc = "read"]
    /\ UNCHANGED <<prod, bfail, lost>>

\* The loop yields a heartbeat after every read, with or without entries.
ReadGroup_HeartbeatAlways(v) ==
    /\ vw[v].pc = "read"
    /\ LET msgs == SubSeq(Undelivered, 1, Min(ReadCount, Len(Undelivered)))
       IN  IF msgs = << >>
           THEN /\ vw' = [vw EXCEPT ![v].pc = "sleep", ![v].last = Heartbeat]
                /\ UNCHANGED broker
           ELSE /\ broker' = [broker EXCEPT
                                 !.delivered = msgs[Len(msgs)].id,
                                 !.pending = @ \cup
                                    { [id |-> msgs[i].id, consumer |-> v] :
                                        i \in 1..Len(msgs) }]
                /\ vw' = [vw EXCEPT
                             ![v].batch = SkipToData(msgs),
                             ![v].passed = @ \o Skipped(msgs),
                             ![v].last = Heartbeat,
                             ![v].pc = IF SkipToData(msgs) = << >>
                                       THEN "sleep" ELSE "ack"]
    /\ UNCHANGED <<prod, bfail, lost>>

\* Lines 97-106 and 116-117: xreadgroup(group_name, consumer_name,
\* {redis_key: ">"}, count, block). No entry within the block time: the
\* heartbeat. Otherwise the group's position moves past the entries read and
\* they are pending for this consumer.
ReadGroup(v) ==
    /\ vw[v].pc = "read"
    /\ LET msgs == SubSeq(Undelivered, 1, Min(ReadCount, Len(Undelivered)))
       IN  IF msgs = << >>
           THEN /\ vw' = [vw EXCEPT ![v].pc = "sleep", ![v].last = Heartbeat]
                /\ UNCHANGED broker
           ELSE /\ broker' = [broker EXCEPT
                                 !.delivered = msgs[Len(msgs)].id,
                                 !.pending = @ \cup
                                    { [id |-> msgs[i].id, consumer |-> v] :
                                        i \in 1..Len(msgs) }]
                /\ vw' = [vw EXCEPT
                             ![v].batch = SkipToData(msgs),
                             ![v].passed = @ \o Skipped(msgs),
                             ![v].last = NoEvent,
                             ![v].pc = IF SkipToData(msgs) = << >>
                                       THEN "sleep" ELSE "ack"]
    /\ UNCHANGED <<prod, bfail, lost>>

\* Lines 111-114: _acknowledge_message for the message at hand (xack).
AcknowledgeMessage(v) ==
    /\ vw[v].pc = "ack"
    /\ LET id == Head(vw[v].batch).id
       IN  broker' = [broker EXCEPT
                        !.pending = { p \in @ : p.id # id },
                        !.acked = @ \cup {id}]
    /\ vw' = [vw EXCEPT ![v].pc = "yield", ![v].last = NoEvent]
    /\ UNCHANGED <<prod, bfail, lost>>

\* Line 115: the data event of the message at hand is yielded; the for loop
\* goes on to the next message that has a log_entry.
YieldData(v) ==
    /\ vw[v].pc = "yield"
    /\ LET m == Head(vw[v].batch)
           ev == ProcessMessage(m)
           rest == Tail(vw[v].batch)
       IN  vw' = [vw EXCEPT
                    ![v].emitted = Append(@, [id |-> m.id, type |-> ev.type,
                                              message |-> ev.message]),
                    ![v].seen = @ \cup {ev.message},
                    ![v].passed = (@ \o <<m>>) \o Skipped(rest),
                    ![v].last = ev,
                    ![v].batch = SkipToData(rest),
                    ![v].pc = IF SkipToData(rest) = << >> THEN "sleep" ELSE "ack"]
    /\ UNCHANGED <<broker, prod, bfail, lost>>

\* Line 124: asyncio.sleep(0.1), then the next turn of the while loop.
Sleep(v) ==
    /\ vw[v].pc = "sleep"
    /\ vw' = [vw EXCEPT ![v].pc = "read", ![v].last = NoEvent]
    /\ UNCHANGED <<broker, prod, bfail, lost>>

\* The positions of get_redis_logs at which a Redis call is made.
BrokerCallPcs == {"init_stream", "setup_group", "read", "ack"}

\* The except branch of the loop lacks its break.
BrokerFails_NoBreak(v) ==
    /\ vw[v].pc \in BrokerCallPcs
    /\ bfail < MaxBrokerFailures
    /\ bfail' = bfail + 1
    /\ vw' = [vw EXCEPT ![v].pc = IF vw[v].pc \in {"read", "ack"}
                                  THEN "sleep" ELSE "done",
                        ![v].batch = << >>,
                        ![v].last = ErrorEvent,
                        ![v].errors = @ + 1]
    /\ UNCHANGED <<broker, prod, lost>>

\* The Redis call at the current position raises. Setup: the helper returns
\* False, lines 86-92 yield the error text and return. Loop: lines 119-122
\* yield the error text and break.
BrokerFails(v) ==
    /\ vw[v].pc \in BrokerCallPcs
    /\ bfail < MaxBrokerFailures
    /\ bfail' = bfail + 1
    /\ vw' = [vw EXCEPT ![v].pc = "done",
                        ![v].batch = << >>,
                        ![v].last = ErrorEvent,
                        ![v].errors = @ + 1]
    /\ UNCHANGED <<broker, prod, lost>>

\* The positions at which the generator is suspended or about to yield.
RunningPcs == BrokerCallPcs \cup {"yield", "sleep"}

\* The client disconnects: the generator is closed where it stands.
CancelStream(v) ==
    /\ vw[v].pc \in RunningPcs
    /\ vw' = [vw EXCEPT ![v] = [InitViewer EXCEPT !.pc = "cancelled",
                                                  !.calls = vw[v].calls,
                                                  !.seen = vw[v].seen]]
    /\ UNCHANGED <<broker, prod, bfail, lost>>

\* event_generator of stream_task_logs: the frame sent for what
\* get_redis_logs yields; only the heartbeat is the empty string.
EventGenerator(ev) ==
    IF ev.ev = "none" THEN "nothing"
    ELSE IF ev.ev # "heartbeat" THEN "data" ELSE "comment"

\* The steps get_redis_logs takes by itself once it has been called.
ViewerRun(v) ==
    \/ InitializeStream(v)
    \/ SetupConsumerGroup(v)
    \/ ReadGroup(v)
    \/ AcknowledgeMessage(v)
    \/ YieldData(v)
    \/ Sleep(v)

\* The steps of the log service for the viewers in V.
LogStep(V) ==
    \/ AppendLine
    \/ ProducerStop
    \/ \E v \in V : CallStream(v)
    \/ \E v \in V : ViewerRun(v)
    \/ \E v \in V : BrokerFails(v)
    \/ \E v \in V : CancelStream(v)

\* One viewer, who may open the view again after a view has ended.
LogNext ==
    /\ LogStep({"w1"})
    /\ UNCHANGED <<orchVars, view, applied, stepVars, srvVars>>

LogSpec == Init /\ [][LogNext]_vars

\* The event loop keeps running a generator whose client keeps reading.
LogFairSpec ==
    LogSpec /\ WF_vars(ViewerRun("w1") /\ UNCHANGED <<orchVars, view, applied, stepVars, srvVars>>)

\* Two viewers of the same task, each opening the view once.
SharedNext ==
    /\ LogStep(Viewers)
    /\ \A v \in Viewers : vw'[v].calls <= 1
    /\ UNCHANGED <<orchVars, view, applied, stepVars, srvVars>>

SharedSpec == Init /\ [][SharedNext]_vars

(* ------------------- a step that logs its output ----------------------- *)

\* What a command prints: run_ssh_command logs the stdout lines, then the
\* stderr lines.
CommandOutputs == { << >>, <<"stdout">>, <<"stderr">>, <<"stdout", "stderr">> }

\* The step functions a Task is bound to: a plain list of commands
\* (_install_calico_cni) and the polling readiness check.
StepKinds == {"commands", "readiness"}

\* What the steps of a Task and of get_mongo_logs never touch.
stepFrame == <<store, registry, clock, pc, loc, storeErrAt, view, applied,
               vw, lost, returned, bg, loop, fkind>>

\* The archived form of the line about to be appended to the stream.
LogLine(type) == [ type |-> type, message |-> prod.n + 1 ]

\* redis_client.xadd(f"task:{task_id}", {type: line}).
Xadd(type) ==
    /\ broker' = [broker EXCEPT
                    !.stream = Append(@, LineEntry(broker.nextId, type,
                                                   prod.n + 1)),
                    !.nextId = @ + 1]
    /\ prod' = [prod EXCEPT !.n = @ + 1]

\* update_one({"task_id"}, {"$push": {"logs": {"$each": lines}},
\* "$setOnInsert": {"task_id"}}, upsert=True).
Push(doc, lines) ==
    IF doc = NoDoc
    THEN [ task_id |-> TaskId, logs |-> lines ]
    ELSE [ doc EXCEPT !.logs = @ \o lines ]

\* Task.run line 35 and the call of the step function (lines 37-40).
TaskRun(kind) ==
    /\ step.pc = "idle"
    /\ step' = [step EXCEPT !.pc = IF kind = "commands" THEN "cmds"
                                                        ELSE "p1_loop",
                            !.kind = kind,
                            !.status = IN_PROGRESS]
    /\ UNCHANGED <<broker, prod, bfail, failures, archive>>

\* _install_calico_cni: the next command of the list is run.
NextCommand ==
    /\ step.pc = "cmds"
    /\ step.cmds < MaxCmds
    /\ step' = [step EXCEPT !.pc = "run", !.cmds = @ + 1,
                            !.check = TRUE, !.ret = "cmds"]
    /\ UNCHANGED <<broker, prod, bfail, failures, archive>>

\* The step function returns: Task.run line 41.
StepReturns ==
    /\ \/ step.pc = "cmds" /\ step.cmds >= 1
       \/ step.pc = "r_return"
    /\ step' = [step EXCEPT !.pc = "done", !.status = COMPLETED,
                            !.work = "ok"]
    /\ UNCHANGED <<broker, prod, bfail, failures, archive>>

\* run_ssh_command lines 148-152: the command runs and exits with status 0
\* (or check_exit_status is False) having printed some lines.
ConnectionRun ==
    /\ step.pc = "run"
    /\ \E o \in CommandOutputs :
          step' = [step EXCEPT !.out = o, !.cmdbuf = << >>,
                               !.pc = IF o = << >> THEN step.ret ELSE "xadd"]
    /\ UNCHANGED <<broker, prod, bfail, failures, archive>>

\* run_ssh_command lines 195-204: the command exits non-zero, UnexpectedExit
\* becomes an ApplicationError, the step function re-raises and Task.run
\* (lines 42-45) records the failure.
CommandExitsNonZero ==
    /\ step.pc = "run"
    /\ step.check
    /\ step' = [step EXCEPT !.pc = "done", !.status = FAILED,
                            !.work = "failed"]
    /\ UNCHANGED <<broker, prod, bfail, failures, archive>>

\* run_ssh_command lines 159-181: one line is added to the stream and to
\* logs_to_append.
CommandXadd ==
    /\ step.pc = "xadd"
    /\ Xadd(Head(step.out))
    /\ step' = [step EXCEPT !.cmdbuf = Append(@, LogLine(Head(step.out))),
                            !.out = Tail(@),
                            !.pc = IF Tail(step.out) = << >> THEN "push"
                                                             ELSE "xadd"]
    /\ UNCHANGED <<bfail, failures, archive>>

\* run_ssh_command lines 184-194: the lines of the command are archived and
\* the command returns to the step function.
CommandPush ==
    /\ step.pc = "push"
    /\ archive' = Push(archive, step.cmdbuf)
    /\ step' = [step EXCEPT !.pc = step.ret]
    /\ UNCHANGED <<broker, prod, bfail, failures>>

\* xadd raises: run_ssh_command catches only UnexpectedExit, so the Redis
\* error leaves it; the step function turns it into an ApplicationError
\* and Task.run (lines 42-45) records the Task as FAILED.
XaddFails ==
    /\ step.pc \in {"xadd", "d_xadd"}
    /\ bfail < MaxBrokerFailures
    /\ bfail' = bfail + 1
    /\ step' = [step EXCEPT !.pc = "done", !.status = FAILED]
    /\ UNCHANGED <<broker, prod, failures, archive>>

\* update_one raises: the error leaves run_ssh_command (or the readiness
\* check) the same way.
UpdateOneFails ==
    /\ step.pc \in {"push", "r_push"}
    /\ failures < MaxStoreFailures
    /\ failures' = failures + 1
    /\ step' = [step EXCEPT !.pc = "done", !.status = FAILED]
    /\ UNCHANGED <<broker, prod, bfail, archive>>

\* The step function writes one log line itself.
DirectLine(type, append, next) ==
    [step EXCEPT !.pc = "d_xadd",
                 !.dl = [ type |-> type, append |-> append, next |-> next ]]

\* _check_akash_node_readiness: redis_client.xadd of a message, followed
\* (except at lines 448-469) by logs_to_append.append.
DirectXadd ==
    /\ step.pc = "d_xadd"
    /\ Xadd(step.dl.type)
    /\ step' = [step EXCEPT !.buf = IF step.dl.append
                                    THEN Append(@, LogLine(step.dl.type))
                                    ELSE @,
                            !.pc = step.dl.next,
                            !.dl = NoLine]
    /\ UNCHANGED <<bfail, failures, archive>>

\* Phase 1, lines 329-335: another iteration of the wait for the pod.
PodPoll ==
    /\ step.pc = "p1_loop"
    /\ step.polls < MaxPolls
    /\ step' = [step EXCEPT !.pc = "run", !.polls = @ + 1,
                            !.check = FALSE, !.ret = "p1_ret"]
    /\ UNCHANGED <<broker, prod, bfail, failures, archive>>

\* Lines 337-354: the pod is running (break), or the answer is not JSON, or
\* the pod is not running yet.
PodResult ==
    /\ step.pc = "p1_ret"
    /\ \/ step' = [DirectLine("stdout", TRUE, "p2_start") EXCEPT !.polls = 0]
       \/ step' = DirectLine("stderr", TRUE, "p1_wait")
       \/ step' = [step EXCEPT !.pc = "p1_wait"]
    /\ UNCHANGED <<broker, prod, bfail, failures, archive>>

\* Lines 351-355: "not ready yet, waiting" and the sleep.
PodWait ==
    /\ step.pc = "p1_wait"
    /\ step' = DirectLine("stderr", TRUE, "p1_loop")
    /\ UNCHANGED <<broker, prod, bfail, failures, archive>>

\* Lines 356-362: the pod did not become ready within pod_timeout.
PodTimeout ==
    /\ step.pc = "p1_loop"
    /\ step.polls >= 1
    /\ step' = DirectLine("stderr", TRUE, "raise")
    /\ UNCHANGED <<broker, prod, bfail, failures, archive>>

\* Lines 373-377: "Checking Akash node sync status".
SyncStart ==
    /\ step.pc = "p2_start"
    /\ step' = DirectLine("stdout", TRUE, "p2_loop")
    /\ UNCHANGED <<broker, prod, bfail, failures, archive>>

\* Phase 2, lines 378-385: another iteration of the wait for the sync.
SyncPoll ==
    /\ step.pc = "p2_loop"
    /\ step.polls < MaxPolls
    /\ step' = [step EXCEPT !.pc = "run", !.polls = @ + 1,
                            !.check = FALSE, !.ret = "p2_ret"]
    /\ UNCHANGED <<broker, prod, bfail, failures, archive>>

\* Lines 387-469: the node is catching up, is synced, is not fully synced,
\* or the answers could not be read.
SyncResult ==
    /\ step.pc = "p2_ret"
    /\ \/ step' = DirectLine("stdout", TRUE, "p2_loop")
       \/ step' = DirectLine("stdout", TRUE, "restart")
       \/ step' = DirectLine("stderr", TRUE, "r_push")
       \/ step' = DirectLine("stderr", FALSE, "p2_loop")
    /\ UNCHANGED <<broker, prod, bfail, failures, archive>>

\* Lines 437-445: after "not fully synced" the whole of logs_to_append is
\* archived; the list is not cleared.
ReadinessPush ==
    /\ step.pc = "r_push"
    /\ archive' = Push(archive, step.buf)
    /\ step' = [step EXCEPT !.pc = "p2_loop"]
    /\ UNCHANGED <<broker, prod, bfail, failures>>

\* Lines 419-425: the node is synced, operator-inventory is restarted.
RestartInventory ==
    /\ step.pc = "restart"
    /\ step' = [step EXCEPT !.pc = "run", !.check = TRUE, !.ret = "r_return"]
    /\ UNCHANGED <<broker, prod, bfail, failures, archive>>

\* Lines 472-476: the node did not sync within sync_timeout.
SyncTimeout ==
    /\ step.pc = "p2_loop"
    /\ step.polls >= 1
    /\ step' = DirectLine("stderr", FALSE, "raise")
    /\ UNCHANGED <<broker, prod, bfail, failures, archive>>

\* Lines 363-371 and 477-484: ApplicationError; Task.run lines 42-45.
ReadinessRaises ==
    /\ step.pc = "raise"
    /\ step' = [step EXCEPT !.pc = "done", !.status = FAILED,
                            !.work = "failed"]
    /\ UNCHANGED <<broker, prod, bfail, failures, archive>>

\* A slip in get_mongo_logs: a missing document is reported as an error.
GetMongoLogsResult_MissingIsError(doc) ==
    IF doc = NoDoc
    THEN [ kind |-> "error", logs |-> << >> ]
    ELSE [ kind |-> "logs",
           logs |-> [i \in DOMAIN doc.logs |->
                       [ type |-> doc.logs[i].type,
                         message |-> doc.logs[i].message ]] ]

\* get_mongo_logs lines 131-144, given what find_one returned.
GetMongoLogsResult(doc) ==
    IF doc = NoDoc
    THEN [ kind |-> "logs", logs |-> << >> ]
    ELSE [ kind |-> "logs",
           logs |-> [i \in DOMAIN doc.logs |->
                       [ type |-> doc.logs[i].type,
                         message |-> doc.logs[i].message ]] ]

\* get_mongo_logs when the archive answers.
GetMongoLogs ==
    /\ alogs' = GetMongoLogsResult(archive)
    /\ UNCHANGED <<step, archive, broker, prod, bfail, failures>>

\* get_mongo_logs when find_one raises: lines 146-148.
GetMongoLogsFails ==
    /\ failures < MaxStoreFailures
    /\ failures' = failures + 1
    /\ alogs' = [ kind |-> "error", logs |-> << >> ]
    /\ UNCHANGED <<step, archive, broker, prod, bfail>>

\* One step of the Task.
TaskStep ==
    \/ \E kind \in StepKinds : TaskRun(kind)
    \/ NextCommand
    \/ StepReturns
    \/ ConnectionRun
    \/ CommandExitsNonZero
    \/ CommandXadd
    \/ CommandPush
    \/ XaddFails
    \/ UpdateOneFails
    \/ DirectXadd
    \/ PodPoll
    \/ PodResult
    \/ PodWait
    \/ PodTimeout
    \/ SyncStart
    \/ SyncPoll
    \/ SyncResult
    \/ ReadinessPush
    \/ RestartInventory
    \/ SyncTimeout
    \/ ReadinessRaises

StepNext ==
    /\ \/ TaskStep /\ alogs' = NoLogs
       \/ GetMongoLogs
       \/ GetMongoLogsFails
    /\ UNCHANGED stepFrame

StepSpec == Init /\ [][StepNext]_vars

LogTypeOK ==
    /\ prod.n \in 0..MaxLines
    /\ bfail \in 0..MaxBrokerFailures
    /\ \A v \in Viewers : vw[v].pc \in RunningPcs \cup {"idle", "cancelled", "done"}

TypeOK ==
    /\ clock \in 1..MaxClock
    /\ failures \in 0..MaxStoreFailures
    /\ DOMAIN store \subseteq ActionIds
    /\ \A a \in DOMAIN store :
         /\ store[a].status \in TaskStatus
         /\ \A i \in DOMAIN store[a].tasks : store[a].tasks[i].status \in TaskStatus


(* ------------------- vocabulary of the properties --------------------- *)

NumTasks(a) == Len(store[a].tasks)

\* The callable bound to the Task at position i of the action.
FuncAt(a, i) == registry[a][store[a].tasks[i].name].func

\* run_action has returned normally to its caller / has ended either way.
Returned(a) == pc[a] = "returned"
Ended(a) == pc[a] \in {"returned", "raised"}

\* The step at position k raises and every other step would succeed.
OnlyStepFails(a, k) ==
    /\ FuncAt(a, k) \in Errors
    /\ \A j \in 1..NumTasks(a) : j # k => FuncAt(a, j) = Ok

FailFastOutcome(a, k) ==
    /\ \A j \in 1..NumTasks(a) :
          store[a].tasks[j].status =
             IF j < k THEN COMPLETED ELSE IF j = k THEN FAILED ELSE NOT_STARTED
    /\ store[a].status = FAILED
    /\ store[a].end_time # NoTime
    /\ store[a].end_time >= store[a].start_time

\* C1: when run_action returns for an action in which only the step of Tk
\* raises, the Task Records T1..Tk-1 are COMPLETED, Tk is FAILED, Tk+1..Tn are
\* NOT_STARTED, the Action is FAILED and end_time is set and >= start_time.
C1_FailFastOutcome ==
    \A a \in DOMAIN store :
        Returned(a) =>
            \A k \in 1..NumTasks(a) :
                OnlyStepFails(a, k) => FailFastOutcome(a, k)

\* The fail-fast outcome of C1 in the runs in which no store call raised.
FailFastWhenStoreHealthy ==
    \A a \in DOMAIN store :
        (Returned(a) /\ storeErrAt[a] = NoErr) =>
            \A k \in 1..NumTasks(a) :
                OnlyStepFails(a, k) => FailFastOutcome(a, k)

\* C2: whenever a Task Record is FAILED after run_action, its error_message
\* is present and non-empty.
C2_FailedHasErrorMessage ==
    \A a \in DOMAIN store :
        Returned(a) =>
            \A i \in 1..NumTasks(a) :
                store[a].tasks[i].status = FAILED =>
                    Truthy(store[a].tasks[i].error_message)

AllCompletedOutcome(a) ==
    /\ \A i \in 1..NumTasks(a) : store[a].tasks[i].status = COMPLETED
    /\ store[a].status = COMPLETED
    /\ store[a].end_time # NoTime

\* C3: when run_action returns for an action in which every step returns
\* normally, every Task Record is COMPLETED, the Action is COMPLETED and
\* end_time is set.
C3_AllSucceedCompleted ==
    \A a \in DOMAIN store :
        (Returned(a) /\ \A i \in 1..NumTasks(a) : FuncAt(a, i) = Ok)
            => AllCompletedOutcome(a)

\* The outcome of C3 in the runs in which no store call raised.
AllSucceedWhenStoreHealthy ==
    \A a \in DOMAIN store :
        (/\ Returned(a)
         /\ storeErrAt[a] = NoErr
         /\ \A i \in 1..NumTasks(a) : FuncAt(a, i) = Ok)
            => AllCompletedOutcome(a)

\* C4: in every state of the store the persisted Action status of an Action
\* (here: of every Action that has at least one Task) equals the rollup of
\* the persisted statuses of its Tasks.
C4_ActionStatusIsRollup ==
    \A a \in DOMAIN store :
        NumTasks(a) > 0 => store[a].status = Rollup(TaskStatuses(store[a]))

\* Position of a status in NOT_STARTED -> IN_PROGRESS -> {COMPLETED, FAILED}.
Rank(s) == IF s = NOT_STARTED THEN 0 ELSE IF s = IN_PROGRESS THEN 1 ELSE 2

Terminal(s) == s \in {COMPLETED, FAILED}

\* C5: the persisted Action status never moves backwards and never leaves
\* COMPLETED or FAILED.
C5_ActionStatusForwardOnly ==
    [][ \A a \in DOMAIN store :
          /\ Rank(store'[a].status) >= Rank(store[a].status)
          /\ Terminal(store[a].status) => store'[a].status = store[a].status
      ]_vars

\* One move of the Task lifecycle.
TaskMove(s, t) ==
    \/ t = s
    \/ s = NOT_STARTED /\ t = IN_PROGRESS
    \/ s = IN_PROGRESS /\ Terminal(t)

\* C6: every Task Record, and every runtime Task, moves NOT_STARTED ->
\* IN_PROGRESS -> one of COMPLETED/FAILED, and is never changed once it is
\* COMPLETED or FAILED.
C6_TaskLifecycle ==
    [][ \A a \in DOMAIN store :
          /\ \A i \in 1..NumTasks(a) :
                TaskMove(store[a].tasks[i].status, store'[a].tasks[i].status)
          /\ \A n \in DOMAIN registry[a] :
                TaskMove(registry[a][n].status, registry'[a][n].status)
      ]_vars

\* C7: at most one Task Record of an Action is IN_PROGRESS, and a Task Record
\* has left NOT_STARTED only if all Task Records before it are COMPLETED.
C7_SequentialInListOrder ==
    \A a \in DOMAIN store :
        /\ Cardinality({i \in 1..NumTasks(a) :
                           store[a].tasks[i].status = IN_PROGRESS}) <= 1
        /\ \A k \in 1..NumTasks(a) :
              store[a].tasks[k].status # NOT_STARTED =>
                 \A j \in 1..(k - 1) : store[a].tasks[j].status = COMPLETED

C9_EndTimeSetWhenEnded ==
    \A a \in DOMAIN store :
        (Ended(a) /\ store[a].start_time # NoTime) => store[a].end_time # NoTime

\* C10: after a store call of run_action has raised, run_action does not
\* return normally and does not start a later Task.
C10_StoreFailureNotSwallowed ==
    \A a \in ActionIds :
        storeErrAt[a] # NoErr =>
            /\ ~Returned(a)
            /\ \A i \in storeErrAt[a] : loc[a].idx = i


\* C11: a raising step never makes run_action raise (run_action raises only
\* after a store call raised), and when run_action returns every step that
\* raised is recorded as a FAILED Task under a FAILED Action.
C11_StepFailureRecorded ==
    \A a \in DOMAIN store :
        /\ pc[a] = "raised" => storeErrAt[a] # NoErr
        /\ Returned(a) =>
              \A i \in 1..loc[a].idx :
                  FuncAt(a, i) \in Errors =>
                      /\ store[a].tasks[i].status = FAILED
                      /\ store[a].status = FAILED

\* C11 witness: run_action has returned, without any store failure, from an
\* action whose second step raised.
C11_Witness ==
    \E a \in DOMAIN store :
        /\ Returned(a)
        /\ storeErrAt[a] = NoErr
        /\ loc[a].idx = 2
        /\ FuncAt(a, 2) \in Errors
        /\ store[a].tasks[2].status = FAILED
        /\ store[a].status = FAILED

\* The rollup rule as the specification words it, on the set of statuses.
RollupRule(statuses) ==
    LET S == { statuses[i] : i \in DOMAIN statuses } IN
    CASE FAILED \in S -> FAILED
      [] FAILED \notin S /\ IN_PROGRESS \in S -> IN_PROGRESS
      [] S \cap {FAILED, IN_PROGRESS} = {} /\ S \subseteq {COMPLETED} -> COMPLETED
      [] OTHER -> NOT_STARTED

\* C12: every recomputation stores the rollup rule's value for the snapshot
\* of Task statuses and changes nothing but the Action status field, the
\* first time and every further time it is applied to the same snapshot.
C12_RollupPure ==
    [][ \A a \in DOMAIN store :
          IF pc[a] = "uas_write" /\ pc'[a] # "uas_write"
          THEN store' = [store EXCEPT
                           ![a].status = RollupRule(TaskStatuses(store[a]))]
          ELSE store'[a] = store[a]
      ]_vars

\* C12 witness: the recomputation has been applied twice to a snapshot with
\* a FAILED and an IN_PROGRESS Task, and the stored status is FAILED.
C12_Witness ==
    \E a \in DOMAIN store :
        /\ applied = 2
        /\ \E i, j \in 1..NumTasks(a) :
              /\ store[a].tasks[i].status = FAILED
              /\ store[a].tasks[j].status = IN_PROGRESS
        /\ store[a].status = FAILED

\* C20: get_action_status for an id without an Action Record never returns a
\* view: it fails with the not-found error (or, when the lookup itself
\* raised, with the store's error), and the call changes neither the store
\* nor the registry.
C20_UnknownIdNotFound ==
    [][ \A a \in ActionIds :
          (view'.kind \notin {"none"} \cup RunRefusals /\ view'.id = a
             /\ a \notin DOMAIN store) =>
              /\ view'.kind \in {"not_found", "error"}
              /\ view'.kind = "error" => failures' = failures + 1
              /\ store' = store
              /\ registry' = registry
      ]_vars

\* C20 witness: get_action_status has just failed with not-found for an id
\* that has no Action Record.
C20_Witness ==
    /\ view.kind = "not_found"
    /\ view.id \notin DOMAIN store


(* ------------------------- the log service ---------------------------- *)

\* The lines the producer has appended so far.
Lines == 1..prod.n

\* The viewer stands in its loop with no message at hand, and the group has
\* delivered every entry of the stream.
Drained(v) ==
    /\ vw[v].pc \in {"read", "sleep"}
    /\ Undelivered = << >>

\* C13: two viewers with distinct viewer ids streaming the same task each
\* observe every data line appended to the task's stream; an entry read or
\* acknowledged by one viewer is still delivered to the other. Stated for the
\* runs in which no Redis call raises and the length cap evicts no line.
C13_EachViewerObservesAll ==
    ( /\ bfail = 0
      /\ lost = {}
      /\ \A v \in Viewers : vw[v].calls = 1 /\ Drained(v) )
    => \A v \in Viewers : vw[v].seen = Lines

\* The viewer is in its first call and no Redis call has raised.
FirstCallRunning(v) ==
    /\ vw[v].calls = 1
    /\ vw[v].pc \in RunningPcs
    /\ bfail = 0

\* The data events of the call are those of lines 1, 2, ... in that order.
EmittedInOrder(v) ==
    \A i \in 1..Len(vw[v].emitted) : vw[v].emitted[i].message = i

\* C14: a single viewer that drains the stream without disconnecting emits
\* data events for L1..Lm in exactly that order with no line omitted, whether
\* it connects before, during or after the lines are appended.
C14_SingleViewerInOrder ==
    \A v \in Viewers :
        FirstCallRunning(v) =>
            /\ EmittedInOrder(v)
            /\ Drained(v) => Len(vw[v].emitted) = prod.n

\* The same, for the runs in which the length cap of the stream has evicted
\* no line that was still to be delivered.
InOrderWhenNothingEvicted ==
    \A v \in Viewers :
        (FirstCallRunning(v) /\ lost = {}) =>
            /\ EmittedInOrder(v)
            /\ Drained(v) => Len(vw[v].emitted) = prod.n

\* C15: at-least-once across restarts: if a viewer cancels a stream call at
\* any point and later calls stream again with the same task and viewer id,
\* every data entry of the stream is emitted to that viewer in at least one of
\* the calls. Stated for the runs in which no Redis call raises and the
\* length cap evicts no line, at the moment the later call has drained the
\* stream.
C15_AtLeastOnceAcrossRestarts ==
    \A v \in Viewers :
        ( /\ vw[v].calls >= 2
          /\ Drained(v)
          /\ bfail = 0
          /\ lost = {} )
        => vw[v].seen = Lines

\* C16: a stream call eventually terminates on its own once the task's output
\* has ended (the producer has stopped appending and all entries have been
\* delivered), without the caller having to cancel.
C16_TerminatesWhenOutputEnded ==
    \A v \in Viewers :
        (prod.done /\ Drained(v)) ~> (vw[v].pc \notin RunningPcs)

\* The entries pending for consumer v in the task's group.
PendingOf(b, v) == { p \in b.pending : p.consumer = v }

\* C17: on a broker error during stream setup or during any read or
\* acknowledgement, the stream emits exactly one error event as its last event
\* and then stops: no data event, heartbeat, read or acknowledgement follows
\* the error event.
C17_ErrorEventIsLast ==
    [][ \A v \in Viewers :
          /\ (bfail' = bfail + 1 /\ vw'[v] # vw[v]) =>
                /\ vw'[v].pc = "done"
                /\ vw'[v].last = ErrorEvent
                /\ vw'[v].errors = 1
                /\ vw'[v].emitted = vw[v].emitted
                /\ broker' = broker
          /\ vw'[v].pc = "done" =>
                /\ vw'[v].last = ErrorEvent
                /\ vw'[v].errors = 1
          /\ (vw[v].pc = "done" /\ vw'[v].pc = "done") =>
                /\ vw'[v] = vw[v]
                /\ PendingOf(broker', v) \subseteq PendingOf(broker, v)
                /\ \A id \in broker'.acked \ broker.acked :
                      [id |-> id, consumer |-> v] \notin broker.pending
          /\ (vw[v].pc = "done" /\ vw'[v].pc # "done") =>
                /\ vw'[v].calls = vw[v].calls + 1
                /\ vw'[v].pc = "init_stream"
                /\ broker' = broker ]_vars

\* A call has stopped on a broker error after it had yielded a data event.
C17_Witness ==
    \E v \in Viewers :
        /\ vw[v].pc = "done"
        /\ vw[v].last = ErrorEvent
        /\ Len(vw[v].emitted) > 0

\* The entry has been acknowledged for the task's group: it was delivered and
\* xack has taken it off the pending list.
Acknowledged(id) ==
    /\ id \in broker.acked
    /\ \A p \in broker.pending : p.id # id

\* C18: within a stream call, an entry is emitted as a data event
\* {type, message} if and only if it carries a stdout or stderr field, every
\* emitted entry has been acknowledged to the broker for the task's group, and
\* priming (init) entries are never emitted as data events.
C18_EmittedIffData ==
    \A v \in Viewers :
        /\ \A i \in 1..Len(vw[v].passed) :
              (vw[v].passed[i].key \in {"stdout", "stderr"})
                  <=> (\E j \in 1..Len(vw[v].emitted) :
                          vw[v].emitted[j].id = vw[v].passed[i].id)
        /\ \A j \in 1..Len(vw[v].emitted) :
              /\ \E i \in 1..Len(vw[v].passed) :
                    /\ vw[v].passed[i].id = vw[v].emitted[j].id
                    /\ vw[v].passed[i].key # "init"
                    /\ vw[v].passed[i].key = vw[v].emitted[j].type
                    /\ vw[v].passed[i].value = vw[v].emitted[j].message
              /\ Acknowledged(vw[v].emitted[j].id)

\* A call has passed over an init entry and has yielded a stdout line and a
\* stderr line.
C18_Witness ==
    \E v \in Viewers :
        /\ \E i \in 1..Len(vw[v].passed) : vw[v].passed[i].key = "init"
        /\ \E j \in 1..Len(vw[v].emitted) : vw[v].emitted[j].type = "stdout"
        /\ \E j \in 1..Len(vw[v].emitted) : vw[v].emitted[j].type = "stderr"

\* C19: a blocking read that returns no entries makes the stream emit exactly
\* one heartbeat (empty event) and no data event for that read, and a
\* heartbeat is emitted only for such an empty read.
C19_HeartbeatIffEmptyRead ==
    [][ \A v \in Viewers :
          /\ ( /\ vw[v].pc = "read"
               /\ vw'[v].pc \in {"sleep", "ack"}
               /\ Undelivered = << >> ) =>
                /\ vw'[v].last = Heartbeat
                /\ EventGenerator(vw'[v].last) = "comment"
                /\ vw'[v].emitted = vw[v].emitted
                /\ vw'[v].pc = "sleep"
                /\ broker' = broker
          /\ ( /\ vw'[v] # vw[v]
               /\ EventGenerator(vw'[v].last) = "comment" ) =>
                /\ vw[v].pc = "read"
                /\ Undelivered = << >> ]_vars

\* After data events, a read has found nothing new and the heartbeat is out.
C19_Witness ==
    \E v \in Viewers :
        /\ vw[v].pc = "sleep"
        /\ vw[v].last = Heartbeat
        /\ Len(vw[v].emitted) > 0


(* ------------------- create_action and its failures -------------------- *)

\* C23: after create_action(action_id, name, tasks) succeeds, the store holds
\* an Action Record with status NOT_STARTED, start_time and end_time null, and
\* one Task Record per given task in the given order, each NOT_STARTED with
\* null start_time and end_time; the runtime Task objects are registered
\* under action_id.
C23_CreateActionRecord ==
    [][ \A a \in ActionIds :
          (pc[a] = "idle" /\ pc'[a] = "created") =>
              /\ a \in DOMAIN store'
              /\ store'[a].name = ActionName
              /\ store'[a].status = NOT_STARTED
              /\ store'[a].start_time = NoTime
              /\ store'[a].end_time = NoTime
              /\ \E n \in 0..Len(AllNames) :
                    /\ DOMAIN store'[a].tasks = 1..n
                    /\ \A i \in 1..n :
                          /\ store'[a].tasks[i].name = AllNames[i]
                          /\ store'[a].tasks[i].status = NOT_STARTED
                          /\ store'[a].tasks[i].start_time = NoTime
                          /\ store'[a].tasks[i].end_time = NoTime
              /\ a \in DOMAIN registry'
              /\ DOMAIN registry'[a] =
                    { store'[a].tasks[i].name : i \in DOMAIN store'[a].tasks }
              /\ \A n \in DOMAIN registry'[a] :
                    registry'[a][n].status = NOT_STARTED
      ]_vars

\* C23 witness: create_action has just succeeded for a list of several tasks.
C23_Witness ==
    \E a \in DOMAIN store :
        /\ pc[a] = "created"
        /\ NumTasks(a) >= 2
        /\ store[a].tasks[2].name = AllNames[2]

\* C24: if the store insert in create_action fails (store unreachable, or
\* action_id already used), the error propagates to the caller, the registry
\* is left unchanged (no Tasks registered or replaced under action_id), and
\* any existing Action Record with that id is unchanged.
C24_FailedCreateChangesNothing ==
    [][ \A a \in ActionIds :
          /\ (pc[a] = "idle" /\ pc'[a] # "idle") =>
                pc'[a] \in {"created", "create_raised"}
          /\ ( \/ pc[a] = "idle" /\ pc'[a] = "create_raised"
               \/ view'.kind = "duplicate_key" /\ view'.id = a ) =>
                /\ registry' = registry
                /\ store' = store
                /\ pc'[a] \in {pc[a], "create_raised"}
      ]_vars

\* C24 witness: a second create_action with the id of an Action whose run is
\* under way has been refused.
C24_Witness ==
    \E a \in DOMAIN store :
        /\ view.kind = "duplicate_key"
        /\ view.id = a
        /\ store[a].status = IN_PROGRESS
        /\ a \in DOMAIN registry


(* -------------------------- get_action_status --------------------------- *)

\* C25: get_action_status is read-only and its result is determined by the
\* Action Record in the store alone: it returns name, status, timestamps and
\* the per-Task views in the Record's original order, whatever the in-memory
\* registry of the answering Orchestrator holds.
C25_StatusFromStoreOnly ==
    [][ \A a \in ActionIds :
          (view'.kind = "view" /\ view'.id = a) =>
              /\ UNCHANGED <<store, registry, clock, pc, loc, storeErrAt>>
              /\ a \in DOMAIN store
              /\ view'.name = store[a].name
              /\ view'.status = store[a].status
              /\ view'.start_time = store[a].start_time
              /\ view'.end_time = store[a].end_time
              /\ DOMAIN view'.tasks = DOMAIN store[a].tasks
              /\ \A i \in DOMAIN store[a].tasks :
                    /\ view'.tasks[i].title = store[a].tasks[i].name
                    /\ view'.tasks[i].description =
                          store[a].tasks[i].description
                    /\ view'.tasks[i].status = store[a].tasks[i].status
                    /\ view'.tasks[i].start_time =
                          store[a].tasks[i].start_time
                    /\ view'.tasks[i].end_time = store[a].tasks[i].end_time
      ]_vars

\* C25 witness: a view of several Tasks was returned while the runtime Task
\* of the registry and the stored Task Record disagree on a status.
C25_Witness ==
    \E a \in DOMAIN store :
        /\ view.kind = "view"
        /\ view.id = a
        /\ NumTasks(a) >= 2
        /\ \E i \in DOMAIN store[a].tasks :
              /\ registry[a][store[a].tasks[i].name].status
                    # store[a].tasks[i].status
              /\ view.tasks[i].status = store[a].tasks[i].status


(* ------------------ no retry, no execution after failure ---------------- *)

\* C29: within one run_action each Task's step is invoked at most once (the
\* runtime Task is still NOT_STARTED when Task.run is entered), and once a
\* Task Record has been persisted as FAILED no step of a later Task of that
\* Action is invoked.
C29_NoStepAfterFailedRecord ==
    [][ \A a \in ActionIds :
          (pc[a] = "task_run" /\ pc'[a] = "task_step") =>
              /\ registry[a][loc[a].action[loc[a].idx]].status = NOT_STARTED
              /\ \A j \in 1..(loc[a].idx - 1) :
                    store[a].tasks[j].status # FAILED
      ]_vars

\* C30: after every return of _run_task, the persisted Task Record status
\* equals the status of the runtime Task that run_action inspects for its
\* fail-fast decision, both COMPLETED or both FAILED, also when a store
\* write inside _run_task failed and a later write succeeded.
C30_RecordMatchesRuntimeTask ==
    \A a \in DOMAIN store :
        pc[a] = "ra_check" =>
            /\ store[a].tasks[loc[a].idx].status \in {COMPLETED, FAILED}
            /\ store[a].tasks[loc[a].idx].status =
                  registry[a][loc[a].action[loc[a].idx]].status


(* --------------------------- concurrent Actions ------------------------- *)

\* The first step that raises is the one at position k.
FirstFailure(a, k) ==
    /\ FuncAt(a, k) # Ok
    /\ \A j \in 1..(k - 1) : FuncAt(a, j) = Ok

\* The Record state run_action leaves when the Action is run alone and none
\* of its own store calls raised (FailFastWhenStoreHealthy and
\* AllSucceedWhenStoreHealthy under Spec).
RunAloneOutcome(a) ==
    /\ (\A i \in 1..NumTasks(a) : FuncAt(a, i) = Ok) => AllCompletedOutcome(a)
    /\ \A k \in 1..NumTasks(a) : FirstFailure(a, k) => FailFastOutcome(a, k)

\* C27: for any interleaving of run_action(A) and run_action(B) with A # B,
\* no step of run_action(A) modifies the Action Record or Task Records (or
\* the runtime Tasks) of B, and each Action reaches the final Record state it
\* reaches when run alone.
C27_ConcurrentActionsIndependent ==
    [][ \A a \in PairIds :
          /\ (pc'[a] # pc[a] \/ loc'[a] # loc[a]) =>
                \A b \in PairIds \ {a} :
                    /\ store'[b] = store[b]
                    /\ registry'[b] = registry[b]
                    /\ pc'[b] = pc[b]
                    /\ loc'[b] = loc[b]
          /\ (pc'[a] = "returned" /\ storeErrAt'[a] = NoErr) =>
                RunAloneOutcome(a)'
      ]_vars

\* C27 witness: both Actions have returned after interleaved runs, one
\* having failed at its second Task while the other completed two Tasks.
C27_Witness ==
    /\ DOMAIN store = PairIds
    /\ \A a \in PairIds : Returned(a) /\ NumTasks(a) = 2
    /\ store["A1"].status = FAILED
    /\ store["A1"].tasks[1].status = COMPLETED
    /\ store["A1"].tasks[2].status = FAILED
    /\ store["A2"].status = COMPLETED
    /\ store["A2"].start_time # NoTime


(* ------------------------- a viewer disconnects ------------------------- *)

\* Cancelling a stream call changes nothing but the cancelled call, and a
\* cancelled call reads and acknowledges nothing more.
CancelFrame ==
    [][ \A v \in Viewers :
          /\ (vw[v].pc \in RunningPcs /\ vw'[v].pc = "cancelled") =>
                /\ broker' = broker
                /\ UNCHANGED <<store, registry, prod>>
                /\ \A w \in Viewers \ {v} : vw'[w] = vw[w]
          /\ (vw[v].pc = "cancelled" /\ vw'[v].pc = "cancelled") =>
                /\ PendingOf(broker', v) = PendingOf(broker, v)
                /\ vw'[v] = vw[v] ]_vars

\* C26: a viewer cancelling a stream call at any point stops that viewer's
\* broker reads and acknowledgements, changes no Action or Task Record, and
\* does not change the set of data entries another viewer with a different
\* viewer id goes on to observe: the other viewer, once it has drained the
\* stream, has observed every line, as it does when it streams alone.
\* Stated for the runs in which no Redis call raises and the length cap
\* evicts no line.
C26_CancelLeavesOtherViewers ==
    [][ \A v \in Viewers :
          /\ (vw[v].pc \in RunningPcs /\ vw'[v].pc = "cancelled") =>
                /\ broker' = broker
                /\ UNCHANGED <<store, registry, prod>>
                /\ \A w \in Viewers \ {v} : vw'[w] = vw[w]
          /\ (vw[v].pc = "cancelled" /\ vw'[v].pc = "cancelled") =>
                PendingOf(broker', v) = PendingOf(broker, v)
          /\ \A w \in Viewers \ {v} :
                ( /\ vw'[v].pc = "cancelled"
                  /\ vw'[w].calls = 1
                  /\ Drained(w)'
                  /\ bfail' = 0
                  /\ lost' = {} )
                => vw'[w].seen = Lines' ]_vars

\* A viewer that streams while the other viewer never connects has observed
\* every line once it has drained the stream.
AloneObservesAll ==
    \A v \in Viewers :
        ( /\ \A w \in Viewers \ {v} : vw[w].calls = 0
          /\ vw[v].calls = 1
          /\ Drained(v)
          /\ bfail = 0
          /\ lost = {} )
        => vw[v].seen = Lines


(* ------------------------ the archive of a task ------------------------- *)

\* C21: archived_logs for a task with no archived entries returns an empty
\* sequence and never an error; for a task with an archive document it
\* returns the stored lines as {type, message} in stored order; the call
\* never changes the archive. An error is answered only when the call to the
\* archive itself raised.
C21_ArchivedLogsReadOnly ==
    [][ alogs' # NoLogs =>
          /\ archive' = archive
          /\ UNCHANGED <<broker, step>>
          /\ failures' = failures => alogs'.kind = "logs"
          /\ alogs'.kind = "error" => failures' = failures + 1
          /\ alogs'.kind = "logs" =>
                /\ archive.task_id # TaskId => alogs'.logs = << >>
                /\ archive.task_id = TaskId =>
                      /\ Len(alogs'.logs) = Len(archive.logs)
                      /\ \A i \in 1..Len(archive.logs) :
                            /\ DOMAIN alogs'.logs[i] = {"type", "message"}
                            /\ alogs'.logs[i].type = archive.logs[i].type
                            /\ alogs'.logs[i].message = archive.logs[i].message
      ]_vars

\* C21 witness: the Task has completed without printing a line, nothing was
\* archived, and archived_logs answered the empty sequence.
C21_Witness ==
    /\ step.status = COMPLETED
    /\ archive = NoDoc
    /\ alogs = [ kind |-> "logs", logs |-> << >> ]

\* archived_logs has answered several archived lines of both types.
ArchivedLinesReturned ==
    /\ alogs.kind = "logs"
    /\ Len(alogs.logs) >= 2
    /\ \E i, j \in 1..Len(alogs.logs) :
          i < j /\ alogs.logs[i].type = "stdout" /\ alogs.logs[j].type = "stderr"

\* C22: a failure to append a log line to the Log Broker while a step runs
\* does not fail the step: the Task still ends COMPLETED if the step's own
\* work succeeded (no command exited non-zero, no wait timed out; stated for
\* the runs in which the archive answers).
C22_AppendFailureDoesNotFailStep ==
    [][ /\ (bfail' = bfail + 1 /\ step.status = IN_PROGRESS) =>
              step'.status # FAILED
        /\ ( /\ step'.pc = "done"
             /\ step'.work # "failed"
             /\ failures' = 0 )
           => step'.status = COMPLETED
      ]_vars

\* The data lines of the task's stream, as {type, message}, in stream order.
StreamLines ==
    LET data == SelectSeq(broker.stream, LAMBDA e : e.key # "init") IN
    [ i \in 1..Len(data) |->
        [ type |-> data[i].key, message |-> data[i].value ] ]

\* C28: when a task has finished, the Log Archive for that task holds
\* exactly the data lines (type and message) that were appended to the
\* task's broker stream, in the same order, each line once. Stated for the
\* runs in which no Redis call and no archive call raises.
C28_ArchiveEqualsStream ==
    (step.pc = "done" /\ bfail = 0 /\ failures = 0)
        => archive.logs = StreamLines

\* The same for a step that only runs commands through run_ssh_command.
CommandsArchiveEqualsStream ==
    (step.pc = "done" /\ step.kind = "commands" /\ bfail = 0 /\ failures = 0)
        => archive.logs = StreamLines

\* The same for the readiness check that ends COMPLETED.
ReadinessArchiveEqualsStream ==
    ( /\ step.pc = "done"
      /\ step.kind = "readiness"
      /\ step.status = COMPLETED
      /\ bfail = 0
      /\ failures = 0 )
        => archive.logs = StreamLines


(* ----------------------------- error_message --------------------------- *)

C38_EmptyActionCompletes ==
    \A a \in DOMAIN store :
        NumTasks(a) = 0 =>
            /\ pc[a] \notin {"uts_write", "uas_find", "uas_write",
                              "task_run", "task_step", "ra_check",
                              "ra_fail_write"}
            /\ Returned(a) =>
                  /\ store[a].status = COMPLETED
                  /\ store[a].start_time # NoTime
                  /\ store[a].end_time # NoTime

\* C38 witness: run_action has returned for an Action without Tasks.
C38_Witness ==
    \E a \in DOMAIN store :
        /\ NumTasks(a) = 0
        /\ Returned(a)
        /\ store[a].status = COMPLETED


(* ------------------------- opening a live view ------------------------- *)

\* C34: opening a live view is idempotent on the broker: the setup steps of
\* a stream call for a task whose stream and consumer group already exist
\* add no entry to the stream, remove no data entry from it, do not fail on
\* the existing group, and do not reset the group's delivery position.
C34_OpenIsIdempotent ==
    [][ \A v \in Viewers :
          ( /\ vw[v].pc \in {"init_stream", "setup_group"}
            /\ vw'[v] # vw[v]
            /\ broker.group
            /\ broker.stream # << >>
            /\ bfail' = bfail )
          => /\ broker'.stream = broker.stream
             /\ broker'.group
             /\ broker'.delivered = broker.delivered
             /\ vw'[v].pc \in {"setup_group", "read", "cancelled"}
      ]_vars

\* The part of C34 that is about the consumer group: an existing group is
\* not an error and keeps its delivery position and its pending entries.
ExistingGroupKept ==
    [][ \A v \in Viewers :
          ( /\ vw[v].pc = "setup_group"
            /\ vw'[v] # vw[v]
            /\ broker.group
            /\ bfail' = bfail )
          => /\ broker' = broker
             /\ vw'[v].pc \in {"read", "cancelled"}
      ]_vars


(* ---------------------- run_action without a Record -------------------- *)

\* C37: run_action for an action id with no Action Record raises a
\* not-found error before performing any store write and without invoking
\* any step; and run_action gets past its first line only for an id that
\* has a Record.
C37_RunUnknownIdNotFound ==
    [][ \A a \in ActionIds :
          /\ (view'.id = a /\ view'.kind \in RunRefusals) =>
                /\ a \notin DOMAIN store
                /\ view'.kind = "run_not_found"
                /\ UNCHANGED <<store, registry, clock, pc, loc, storeErrAt>>
          /\ (pc[a] # "ra_start" /\ pc'[a] = "ra_start") =>
                a \in DOMAIN store
      ]_vars

\* C37 witness: run_action was refused for an id whose create_action had
\* failed, so that nothing is stored or registered under it.
C37_Witness ==
    \E a \in ActionIds :
        /\ view = ErrorView(a, "run_not_found")
        /\ pc[a] = "create_raised"
        /\ a \notin DOMAIN store
        /\ a \notin DOMAIN registry


(* --------------------- start_time and end_time of an Action ------------ *)

\* A Task Record leaves NOT_STARTED in this step.
TaskLeavesNotStarted(a) ==
    \E i \in 1..Len(store[a].tasks) :
        /\ store[a].tasks[i].status = NOT_STARTED
        /\ store'[a].tasks[i].status # NOT_STARTED

\* C32: the Action's start_time and end_time are each set once and never
\* rewritten: after any sequence of create_action and run_action calls on an
\* action id, a non-null start_time or end_time in the Action Record never
\* changes, and start_time is persisted before any Task Record leaves
\* NOT_STARTED.
C32_TimesSetOnce ==
    [][ \A a \in DOMAIN store :
          /\ store[a].start_time # NoTime =>
                store'[a].start_time = store[a].start_time
          /\ store[a].end_time # NoTime =>
                store'[a].end_time = store[a].end_time
          /\ TaskLeavesNotStarted(a) => store[a].start_time # NoTime
      ]_vars

\* C32 as amended: each run_action call writes start_time once, at line 53
\* before its loop, and end_time once, at line 68 as its last statement;
\* nothing else writes them, and start_time is persisted before any Task
\* Record leaves NOT_STARTED. A later run_action call on the same id
\* rewrites both.
C32_TimesSetOncePerRun ==
    [][ \A a \in DOMAIN store :
          /\ store'[a].start_time # store[a].start_time =>
                /\ pc[a] = "ra_start"
                /\ pc'[a] # "ra_start"
                /\ store'[a].end_time = store[a].end_time
          /\ store'[a].end_time # store[a].end_time =>
                /\ pc[a] = "ra_end"
                /\ pc'[a] = "returned"
                /\ store'[a].start_time = store[a].start_time
          /\ TaskLeavesNotStarted(a) => store[a].start_time # NoTime
      ]_vars

\* C32 witness: a second run_action call has rewritten start_time, which is
\* now later than the end_time the first call left.
C32_Witness ==
    \E a \in DOMAIN store :
        /\ store[a].end_time # NoTime
        /\ store[a].start_time > store[a].end_time
        /\ pc[a] \notin {"created", "ra_start"}


(* ----------------------- one Task Record per update -------------------- *)

\* C31: each Task status update performed by run_action changes exactly one
\* Task Record, the one of the Task being executed, and leaves every other
\* Task Record of the Action unchanged, for any task list accepted by
\* create_action.
C31_UpdateChangesOneTask ==
    [][ \A a \in DOMAIN store :
          store'[a].tasks # store[a].tasks =>
              /\ pc[a] = "uts_write"
              /\ store'[a].tasks[loc[a].idx] # store[a].tasks[loc[a].idx]
              /\ \A i \in DOMAIN store[a].tasks :
                    i # loc[a].idx => store'[a].tasks[i] = store[a].tasks[i]
      ]_vars


(* --------------------------- launching Actions ------------------------- *)

\* C35: when the call that creates and launches an Action in the background
\* returns the action_id to its caller, the Action's initial Record is
\* already persisted, so a get_action_status(action_id) issued at any time
\* after that return does not fail with not-found.
C35_RecordPersistedBeforeReturn ==
    \A a \in returned :
        /\ a \in DOMAIN store
        /\ view # ErrorView(a, "not_found")

\* C36: while a Task's step is executing, of either kind the Task wrapper
\* accepts, the request-handling context is not blocked: a
\* get_action_status call and another Action's run_action can take steps
\* before the running step returns.
C36_StepDoesNotBlockRequests ==
    \A a \in PairIds :
        pc[a] = "task_step" =>
            \A b \in PairIds :
                /\ ENABLED ServeActionStatus(b)
                /\ (b # a /\ pc[b] = "created") => ENABLED ServerRunStep(b)

\* A step handed to a worker thread leaves the event loop free.
ThreadStepLeavesLoopFree ==
    \A a \in PairIds :
        (pc[a] = "task_step" /\ fkind[a] = "function") =>
            (loop = "free" \/ (loop # a /\ fkind[loop] = "coroutine"))


====
